---- MODULE Spec2Model ----
(***************************************************************************)
(* The real-time pipeline of src/backend/audio_processor.py                *)
(* (AudioProcessor) with its control plane (src/backend/api_server.py) and *)
(* the profile registry (src/backend/voice_profiles.py).                   *)
(*                                                                         *)
(* Threads: one control thread (the caller of start/stop/                  *)
(* set_voice_profile, directly or through the Flask handlers), the worker  *)
(* thread (processing_worker), and the two driver callbacks.  Every        *)
(* attribute read or write of the shared AudioProcessor object is a step   *)
(* of its own, since CPython may switch threads between any two of them.   *)
(*                                                                         *)
(* Factors (pitch_shift, formant_shift) are kept as hundredths: 0.85 is 85.*)
(* An audio block is named by its submission number 1, 2, ...; 0 is        *)
(* silence / no block.                                                     *)
(***************************************************************************)
EXTENDS Integers, Sequences, FiniteSets, TLC

\* Number of blocks the capture driver delivers in a run.
MaxBlocks == 3

\* queue.Queue() is built without a maxsize: 0 means "no limit".
QueueMaxsize == 0

\* The profile names the control plane passes in a run.
ProfileInputs == {"original", "male", "child", "male_deep"}

\* AudioProcessor.set_voice_profile's built-in table.
profiles ==
  ("original" :> [pitch_shift |-> 100, formant_shift |-> 100]) @@
  ("male"     :> [pitch_shift |-> 80,  formant_shift |-> 90]) @@
  ("female"   :> [pitch_shift |-> 130, formant_shift |-> 110]) @@
  ("child"    :> [pitch_shift |-> 150, formant_shift |-> 120]) @@
  ("robot"    :> [pitch_shift |-> 100, formant_shift |-> 100]) @@
  ("elderly"  :> [pitch_shift |-> 90,  formant_shift |-> 95])

\* VoiceProfileManager._load_default_profiles: the registry's factors.
default_profiles ==
  ("original"    :> [pitch_shift |-> 100, formant_shift |-> 100]) @@
  ("male_deep"   :> [pitch_shift |-> 70,  formant_shift |-> 85]) @@
  ("female_high" :> [pitch_shift |-> 140, formant_shift |-> 115]) @@
  ("child"       :> [pitch_shift |-> 160, formant_shift |-> 125]) @@
  ("elderly"     :> [pitch_shift |-> 90,  formant_shift |-> 95]) @@
  ("robot"       :> [pitch_shift |-> 100, formant_shift |-> 100]) @@
  ("alien"       :> [pitch_shift |-> 120, formant_shift |-> 130]) @@
  ("monster"     :> [pitch_shift |-> 60,  formant_shift |-> 80]) @@
  ("whisper"     :> [pitch_shift |-> 95,  formant_shift |-> 105]) @@
  ("announcer"   :> [pitch_shift |-> 85,  formant_shift |-> 90])

VARIABLES
  mode,              \* "api": driven by the Flask handlers; "direct": by a script
  is_running,        \* AudioProcessor.is_running
  input_queue,       \* AudioProcessor.input_queue
  output_queue,      \* AudioProcessor.output_queue
  processing_thread, \* AudioProcessor.processing_thread is not None
  input_stream,      \* "none" (None) | "open" (built) | "active" (started)
  output_stream,
  pitch_shift,       \* AudioProcessor.pitch_shift
  formant_shift,     \* AudioProcessor.formant_shift
  voice_profile,     \* AudioProcessor.voice_profile
  pc,                \* the control thread's position
  stack,             \* the control thread's return positions, innermost first
  arg,               \* the profile argument of the call in progress
  last_ret,          \* which call returned last, and how ("none" inside a call)
  raised,            \* whether that call raised to its caller
  is_processing,     \* server_state["is_processing"]
  response,          \* the last HTTP response of the control plane
  wpc,               \* the worker thread's position ("dead": not alive)
  cur,               \* the block the worker holds and the factors it read
  next_id,           \* the number the next captured block gets
  input_drops,       \* times audio_input_callback took its queue.Full branch
  output_drops,      \* times processing_worker took its queue.Full branch
  outdata,           \* the render callback's buffer, one entry per channel
  played,            \* the blocks the render callback has written, in order
  processing_errors, \* times processing_worker printed "Processing error"
  other_ctl,         \* a second caller thread's pc, stack, arg, last_ret, raised
  other_wrk,         \* a second worker thread's position and held block
  thread_is_other,   \* processing_thread refers to the worker in other_wrk
  transformation_log,  \* EthicalVoiceProcessor.transformation_log
  enable_watermarking, \* EthicalVoiceProcessor.enable_watermarking
  require_disclaimer,  \* EthicalVoiceProcessor.require_disclaimer
  off_op,            \* the last call made outside the pipeline threads
  off_in,            \* its arguments and the attributes it read
  off_out            \* its outcome: [ok, val], ok = FALSE when it raised

vars == <<mode, is_running, input_queue, output_queue, processing_thread,
          input_stream, output_stream, pitch_shift, formant_shift,
          voice_profile, pc, stack, arg, last_ret, raised, is_processing,
          response, wpc, cur, next_id, input_drops, output_drops, outdata,
          played, processing_errors, other_ctl, other_wrk, thread_is_other,
          transformation_log, enable_watermarking, require_disclaimer,
          off_op, off_in, off_out>>

procVars == <<is_running, processing_thread, input_stream, output_stream>>
profVars == <<pitch_shift, formant_shift, voice_profile>>
queueVars == <<input_queue, output_queue>>
ctlVars == <<pc, stack, arg, last_ret, raised>>
apiVars == <<is_processing, response>>
workerVars == <<wpc, cur>>
driverVars == <<next_id, input_drops, output_drops, outdata, played>>
raceVars == <<other_ctl, other_wrk, thread_is_other>>
ethVars == <<transformation_log, enable_watermarking, require_disclaimer>>
offVars == <<ethVars, off_op, off_in, off_out>>
outerVars == <<mode, processing_errors, raceVars, offVars>>

NoBlock == [id |-> 0, pitch |-> 0, formant |-> 0, name |-> "-"]

\* The buffer the driver hands to the first render callback: not yet written.
Stale == -1

\* The context <<pc, stack, arg, last_ret, raised>> of a thread that has
\* returned from its target and makes no further step.
NoThread == <<"exited", <<>>, "-", "none", FALSE>>

\* The arguments of a call that takes none.
NoArgs == [audio_data |-> <<>>]

\* The outcome of a call: it returned val, or it raised.
Ret(v) == [ok |-> TRUE, val |-> v]
Raise == [ok |-> FALSE, val |-> <<>>]

\* ---------------------------------------------------------------- queues

\* queue.Queue.full(): never with maxsize 0.
Full(q) == QueueMaxsize > 0 /\ Len(q) >= QueueMaxsize

\* A put that inserts at the head (a LIFO queue).
QueuePutFront(q, x) == <<x>> \o q

\* queue.Queue.put_nowait on a queue that is not full: at the tail.
QueuePut(q, x) == Append(q, x)

\* A get that reads the head and leaves it queued.
QueuePeek(q) == q

\* queue.Queue.get / get_nowait on a non-empty queue: what stays queued.
QueueRest(q) == Tail(q)

\* ------------------------------------------------------------------ Init

Init ==
  /\ mode \in {"api", "direct"}
  /\ is_running = FALSE
  /\ input_queue = <<>>
  /\ output_queue = <<>>
  /\ processing_thread = FALSE
  /\ input_stream = "none"
  /\ output_stream = "none"
  /\ pitch_shift = 100
  /\ formant_shift = 100
  /\ voice_profile = "original"
  /\ pc = "idle"
  /\ stack = <<>>
  /\ arg = "-"
  /\ last_ret = "none"
  /\ raised = FALSE
  /\ is_processing = FALSE
  /\ response = "none"
  /\ wpc = "dead"
  /\ cur = NoBlock
  /\ next_id = 1
  /\ input_drops = 0
  /\ output_drops = 0
  /\ outdata = <<Stale, Stale>>
  /\ played = <<>>
  /\ processing_errors = 0
  /\ other_ctl = NoThread
  /\ other_wrk = <<"dead", NoBlock>>
  /\ thread_is_other = FALSE
  /\ transformation_log = <<>>
  /\ enable_watermarking = TRUE
  /\ require_disclaimer = TRUE
  /\ off_op = "none"
  /\ off_in = NoArgs
  /\ off_out = Ret(<<>>)

\* ------------------------------------------------- control thread: calls

\* Enter a function at position p, to come back to position r.
Call(p, r) ==
  /\ pc' = p
  /\ stack' = <<r>> \o stack
  /\ last_ret' = "none"
  /\ raised' = FALSE

\* Return from the function in progress with outcome o.
Return(o) ==
  /\ pc' = Head(stack)
  /\ stack' = Tail(stack)
  /\ last_ret' = o
  /\ raised' = FALSE

\* ------------------------------------------------- set_voice_profile

\* A set_voice_profile that falls back to 1.0 / 1.0 for a name the table
\* lacks.
SetVoiceProfileNameResets ==
  /\ pc = "svp_name"
  /\ voice_profile' = arg
  /\ IF arg \in DOMAIN profiles
       THEN /\ pc' = "svp_pitch"
            /\ UNCHANGED <<stack, last_ret, raised, pitch_shift,
                           formant_shift>>
       ELSE /\ Return("set_voice_profile")
            /\ pitch_shift' = 100
            /\ formant_shift' = 100
  /\ UNCHANGED <<outerVars, procVars, queueVars, arg, apiVars, workerVars,
                 driverVars>>

\* self.voice_profile = profile, then "if profile in profiles": a name the
\* table lacks ends the call here.
SetVoiceProfileName ==
  /\ pc = "svp_name"
  /\ voice_profile' = arg
  /\ IF arg \in DOMAIN profiles
       THEN pc' = "svp_pitch" /\ UNCHANGED <<stack, last_ret, raised>>
       ELSE Return("set_voice_profile")
  /\ UNCHANGED <<outerVars, procVars, queueVars, pitch_shift, formant_shift, arg,
                 apiVars, workerVars, driverVars>>

\* self.pitch_shift = profiles[profile]["pitch_shift"]
SetVoiceProfilePitch ==
  /\ pc = "svp_pitch"
  /\ pitch_shift' = profiles[arg].pitch_shift
  /\ pc' = "svp_formant"
  /\ UNCHANGED <<outerVars, procVars, queueVars, formant_shift, voice_profile,
                 stack, arg, last_ret, raised, apiVars, workerVars,
                 driverVars>>

\* self.formant_shift = profiles[profile]["formant_shift"]
SetVoiceProfileFormant ==
  /\ pc = "svp_formant"
  /\ formant_shift' = profiles[arg].formant_shift
  /\ Return("set_voice_profile")
  /\ UNCHANGED <<outerVars, procVars, queueVars, pitch_shift, voice_profile, arg,
                 apiVars, workerVars, driverVars>>

\* ------------------------------------------------------------- start

\* if self.is_running: return;  self.is_running = True
StartCheck ==
  /\ pc = "start_check"
  /\ IF is_running
       THEN Return("start_noop") /\ UNCHANGED is_running
       ELSE /\ is_running' = TRUE
            /\ pc' = "start_spawn"
            /\ UNCHANGED <<stack, last_ret, raised>>
  /\ UNCHANGED <<outerVars, processing_thread, input_stream, output_stream,
                 queueVars, profVars, arg, apiVars, workerVars, driverVars>>

\* self.processing_thread = threading.Thread(...); .start()
\* The new thread takes the worker context that is free; the attribute
\* refers to it from now on.
StartSpawn ==
  /\ pc = "start_spawn"
  /\ processing_thread' = TRUE
  /\ IF wpc = "dead"
       THEN /\ wpc' = "loop"
            /\ thread_is_other' = FALSE
            /\ UNCHANGED other_wrk
       ELSE /\ other_wrk[1] = "dead"
            /\ other_wrk' = <<"loop", NoBlock>>
            /\ thread_is_other' = TRUE
            /\ UNCHANGED wpc
  /\ pc' = "start_open_in"
  /\ UNCHANGED <<mode, processing_errors, other_ctl, offVars, is_running, input_stream,
                 output_stream, queueVars, profVars, stack, arg, last_ret,
                 raised, apiVars, cur, driverVars>>

\* An except clause that reports the error and tears nothing down.
StartExceptPrintOnly ==
  /\ pc' = "start_failed"
  /\ last_ret' = "none"
  /\ UNCHANGED <<stack, raised>>

\* except Exception: print(...); self.stop()
StartExcept == Call("stop_flag", "start_failed")

\* One statement of start()'s try block: it succeeds, or it raises and the
\* except clause runs.
StartTryStep(here, next, inp, out) ==
  /\ pc = here
  /\ \/ /\ input_stream' = inp
        /\ output_stream' = out
        /\ pc' = next
        /\ UNCHANGED <<stack, last_ret, raised>>
     \/ /\ StartExcept
        /\ UNCHANGED <<input_stream, output_stream>>
  /\ UNCHANGED <<outerVars, is_running, processing_thread, queueVars, profVars,
                 arg, apiVars, workerVars, driverVars>>

\* self.input_stream = sd.InputStream(...)
StartOpenInput ==
  StartTryStep("start_open_in", "start_open_out", "open", output_stream)

\* self.output_stream = sd.OutputStream(...)
StartOpenOutput ==
  StartTryStep("start_open_out", "start_in", input_stream, "open")

\* self.input_stream.start()
StartInputStream ==
  StartTryStep("start_in", "start_out", "active", output_stream)

\* self.output_stream.start(); print("Audio processing started"); the call
\* returns, or the start raises and the except clause runs.
StartOutputStream ==
  /\ pc = "start_out"
  /\ \/ /\ output_stream' = "active"
        /\ Return("start_ok")
     \/ /\ StartExcept
        /\ UNCHANGED output_stream
  /\ UNCHANGED <<outerVars, is_running, processing_thread, input_stream,
                 queueVars, profVars, arg, apiVars, workerVars, driverVars>>

\* The except clause's self.stop() has returned: start() returns normally.
StartFailedReturn ==
  /\ pc = "start_failed"
  /\ Return("start_failed")
  /\ UNCHANGED <<outerVars, procVars, queueVars, profVars, arg, apiVars,
                 workerVars, driverVars>>

\* -------------------------------------------------------------- stop

\* self.is_running = False
StopFlag ==
  /\ pc = "stop_flag"
  /\ is_running' = FALSE
  /\ pc' = "stop_in"
  /\ UNCHANGED <<outerVars, processing_thread, input_stream, output_stream,
                 queueVars, profVars, stack, arg, last_ret, raised, apiVars,
                 workerVars, driverVars>>

\* The same statement without its "if self.input_stream:" test: calling
\* stop() on None raises, and the exception leaves stop().
StopInputUnguarded ==
  /\ pc = "stop_in"
  /\ IF input_stream = "none"
       THEN /\ pc' = Head(stack)
            /\ stack' = Tail(stack)
            /\ last_ret' = "stop"
            /\ raised' = TRUE
       ELSE /\ pc' = "stop_out"
            /\ UNCHANGED <<stack, last_ret, raised>>
  /\ input_stream' = "none"
  /\ UNCHANGED <<outerVars, is_running, processing_thread, output_stream,
                 queueVars, profVars, arg, apiVars, workerVars, driverVars>>

\* if self.input_stream: stop(); close(); self.input_stream = None
StopInput ==
  /\ pc = "stop_in"
  /\ input_stream' = "none"
  /\ pc' = "stop_out"
  /\ UNCHANGED <<outerVars, is_running, processing_thread, output_stream,
                 queueVars, profVars, stack, arg, last_ret, raised, apiVars,
                 workerVars, driverVars>>

\* if self.output_stream: stop(); close(); self.output_stream = None
StopOutput ==
  /\ pc = "stop_out"
  /\ output_stream' = "none"
  /\ pc' = "stop_join"
  /\ UNCHANGED <<outerVars, is_running, processing_thread, input_stream,
                 queueVars, profVars, stack, arg, last_ret, raised, apiVars,
                 workerVars, driverVars>>

\* The position of the thread self.processing_thread refers to.
JoinedThread == IF thread_is_other THEN other_wrk[1] ELSE wpc

\* A join that gives up while the worker is still in its loop.
StopJoinNoWait ==
  /\ pc = "stop_join"
  /\ processing_thread' = FALSE
  /\ pc' = "stop_clear_in"
  /\ UNCHANGED <<outerVars, is_running, input_stream, output_stream, queueVars,
                 profVars, stack, arg, last_ret, raised, apiVars, workerVars,
                 driverVars>>

\* if self.processing_thread: join(); self.processing_thread = None
\* join() returns once the worker has left processing_worker.
StopJoin ==
  /\ pc = "stop_join"
  /\ processing_thread => JoinedThread = "dead"
  /\ processing_thread' = FALSE
  /\ pc' = "stop_clear_in"
  /\ UNCHANGED <<outerVars, is_running, input_stream, output_stream, queueVars,
                 profVars, stack, arg, last_ret, raised, apiVars, workerVars,
                 driverVars>>

\* while not self.input_queue.empty(): self.input_queue.get_nowait()
StopClearInput ==
  /\ pc = "stop_clear_in"
  /\ IF input_queue = <<>>
       THEN pc' = "stop_clear_out" /\ UNCHANGED input_queue
       ELSE input_queue' = QueueRest(input_queue) /\ UNCHANGED pc
  /\ UNCHANGED <<outerVars, procVars, output_queue, profVars, stack, arg,
                 last_ret, raised, apiVars, workerVars, driverVars>>

\* while not self.output_queue.empty(): self.output_queue.get_nowait();
\* print("Audio processing stopped"); the call returns.
StopClearOutput ==
  /\ pc = "stop_clear_out"
  /\ IF output_queue = <<>>
       THEN Return("stop") /\ UNCHANGED output_queue
       ELSE /\ output_queue' = QueueRest(output_queue)
            /\ UNCHANGED <<pc, stack, last_ret, raised>>
  /\ UNCHANGED <<outerVars, procVars, input_queue, profVars, arg, apiVars,
                 workerVars, driverVars>>

\* ------------------------------------------------- processing_worker

\* A loop that never tests the flag ("while True:").
WorkerLoopForever ==
  /\ wpc = "loop"
  /\ wpc' = "get"
  /\ UNCHANGED <<outerVars, procVars, queueVars, profVars, ctlVars, apiVars,
                 cur, driverVars>>

\* while self.is_running:
WorkerLoop ==
  /\ wpc = "loop"
  /\ wpc' = IF is_running THEN "get" ELSE "dead"
  /\ UNCHANGED <<outerVars, procVars, queueVars, profVars, ctlVars, apiVars, cur,
                 driverVars>>

\* audio_data = self.input_queue.get(timeout=0.1): the head block, or
\* queue.Empty after the wait ("except queue.Empty: continue").
WorkerGet ==
  /\ wpc = "get"
  /\ \/ /\ input_queue # <<>>
        /\ cur' = [NoBlock EXCEPT !.id = Head(input_queue)]
        /\ input_queue' = QueueRest(input_queue)
        /\ wpc' = "t_pitch"
     \/ /\ input_queue = <<>>
        /\ wpc' = "loop"
        /\ UNCHANGED <<input_queue, cur>>
  /\ UNCHANGED <<outerVars, procVars, output_queue, profVars, ctlVars, apiVars,
                 driverVars>>

\* transform_audio: "if self.pitch_shift != 1.0:" reads the attribute.
TransformPitchTest ==
  /\ wpc = "t_pitch"
  /\ IF pitch_shift # 100
       THEN wpc' = "t_pitch_arg" /\ UNCHANGED cur
       ELSE wpc' = "t_formant" /\ cur' = [cur EXCEPT !.pitch = 100]
  /\ UNCHANGED <<outerVars, procVars, queueVars, profVars, ctlVars, apiVars,
                 driverVars>>

\* self.pitch_shift_audio(transformed, self.pitch_shift) reads it again.
TransformPitchArg ==
  /\ wpc = "t_pitch_arg"
  /\ cur' = [cur EXCEPT !.pitch = pitch_shift]
  /\ wpc' = "t_formant"
  /\ UNCHANGED <<outerVars, procVars, queueVars, profVars, ctlVars, apiVars,
                 driverVars>>

\* "if self.formant_shift != 1.0:"
TransformFormantTest ==
  /\ wpc = "t_formant"
  /\ IF formant_shift # 100
       THEN wpc' = "t_formant_arg" /\ UNCHANGED cur
       ELSE wpc' = "t_effect" /\ cur' = [cur EXCEPT !.formant = 100]
  /\ UNCHANGED <<outerVars, procVars, queueVars, profVars, ctlVars, apiVars,
                 driverVars>>

\* self.apply_formant_shift(transformed, self.formant_shift)
TransformFormantArg ==
  /\ wpc = "t_formant_arg"
  /\ cur' = [cur EXCEPT !.formant = formant_shift]
  /\ wpc' = "t_effect"
  /\ UNCHANGED <<outerVars, procVars, queueVars, profVars, ctlVars, apiVars,
                 driverVars>>

\* 'if self.voice_profile == "robot":' reads the name; normalise; return.
TransformEffect ==
  /\ wpc = "t_effect"
  /\ cur' = [cur EXCEPT !.name = voice_profile]
  /\ wpc' = "put"
  /\ UNCHANGED <<outerVars, procVars, queueVars, profVars, ctlVars, apiVars,
                 driverVars>>

\* self.output_queue.put_nowait(transformed_audio), or on queue.Full
\* print("Output queue full, dropping processed frame").
WorkerPut ==
  /\ wpc = "put"
  /\ IF Full(output_queue)
       THEN output_drops' = output_drops + 1 /\ UNCHANGED output_queue
       ELSE /\ output_queue' = QueuePut(output_queue, cur.id)
            /\ UNCHANGED output_drops
  /\ cur' = NoBlock
  /\ wpc' = "loop"
  /\ UNCHANGED <<outerVars, procVars, input_queue, profVars, ctlVars, apiVars,
                 next_id, input_drops, outdata, played>>

\* The positions of the worker inside transform_audio.
TransformPcs ==
  {"t_pitch", "t_pitch_arg", "t_formant", "t_formant_arg", "t_effect"}

\* A worker without the "except Exception" clause: the exception ends the
\* thread.
WorkerExceptDies ==
  /\ wpc \in TransformPcs
  /\ cur' = NoBlock
  /\ wpc' = "dead"
  /\ processing_errors' = processing_errors + 1
  /\ UNCHANGED <<mode, raceVars, offVars, procVars, queueVars, profVars,
                 ctlVars, apiVars, driverVars>>

\* transform_audio raises for the block the worker holds (np.max on an
\* empty block, filtfilt on a short one, ...): "except Exception as e:
\* print(f"Processing error: {e}")", and the loop goes on.
WorkerExcept ==
  /\ wpc \in TransformPcs
  /\ cur' = NoBlock
  /\ wpc' = "loop"
  /\ processing_errors' = processing_errors + 1
  /\ UNCHANGED <<mode, raceVars, offVars, procVars, queueVars, profVars,
                 ctlVars, apiVars, driverVars>>

\* ---------------------------------------------------- driver callbacks

\* The render stream is opened with channels=2.
OutputChannels == 2

\* A write of the first channel only.
WriteBlockMono(b) == [c \in 1..OutputChannels |-> IF c <= 1 THEN b ELSE Stale]

\* outdata[:, 0] = audio_data; if outdata.shape[1] > 1: outdata[:, 1] =
\* audio_data.  Any further channel keeps what the buffer held.
WriteBlock(b) == [c \in 1..OutputChannels |-> IF c <= 2 THEN b ELSE Stale]

\* outdata.fill(0)
FillSilence == [c \in 1..OutputChannels |-> 0]

\* audio_input_callback: self.input_queue.put_nowait(audio_data.copy()), or
\* on queue.Full print("Input queue full, dropping audio frame").
AudioInputCallback ==
  /\ input_stream = "active"
  /\ next_id <= MaxBlocks
  /\ IF Full(input_queue)
       THEN input_drops' = input_drops + 1 /\ UNCHANGED input_queue
       ELSE /\ input_queue' = QueuePut(input_queue, next_id)
            /\ UNCHANGED input_drops
  /\ next_id' = next_id + 1
  /\ UNCHANGED <<outerVars, procVars, output_queue, profVars, ctlVars, apiVars,
                 workerVars, output_drops, outdata, played>>

\* audio_output_callback: get_nowait() and write the block, or on
\* queue.Empty fill the buffer with zeros.
AudioOutputCallback ==
  /\ output_stream = "active"
  /\ IF output_queue # <<>>
       THEN /\ outdata' = WriteBlock(Head(output_queue))
            /\ played' = Append(played, Head(output_queue))
            /\ output_queue' = QueueRest(output_queue)
       ELSE /\ outdata' = FillSilence
            /\ UNCHANGED <<played, output_queue>>
  /\ UNCHANGED <<outerVars, procVars, input_queue, profVars, ctlVars, apiVars,
                 workerVars, next_id, input_drops, output_drops>>

\* ------------------------------------------- a script's direct calls

CallStart ==
  /\ mode = "direct" /\ pc = "idle"
  /\ Call("start_check", "idle")
  /\ UNCHANGED <<outerVars, procVars, queueVars, profVars, arg, apiVars,
                 workerVars, driverVars>>

CallStop ==
  /\ mode = "direct" /\ pc = "idle"
  /\ Call("stop_flag", "idle")
  /\ UNCHANGED <<outerVars, procVars, queueVars, profVars, arg, apiVars,
                 workerVars, driverVars>>

CallSetVoiceProfile(name) ==
  /\ mode = "direct" /\ pc = "idle"
  /\ arg' = name
  /\ Call("svp_name", "idle")
  /\ UNCHANGED <<outerVars, procVars, queueVars, profVars, apiVars, workerVars,
                 driverVars>>

\* ------------------------------------------------ the Flask handlers

\* POST /api/processing/start: "Processing is already running", or
\* audio_processor.set_voice_profile(profile_name).
start_processing(name) ==
  /\ mode = "api" /\ pc = "idle"
  /\ IF is_processing
       THEN /\ response' = "already_running"
            /\ UNCHANGED <<ctlVars>>
       ELSE /\ arg' = name
            /\ Call("svp_name", "api_start_2")
            /\ response' = "none"
  /\ UNCHANGED <<outerVars, procVars, queueVars, profVars, is_processing,
                 workerVars, driverVars>>

\* audio_processor.start()
start_processing_start ==
  /\ pc = "api_start_2"
  /\ Call("start_check", "api_start_3")
  /\ UNCHANGED <<outerVars, procVars, queueVars, profVars, arg, apiVars,
                 workerVars, driverVars>>

\* server_state["is_processing"] = True and the 200 response; an exception
\* out of the calls gives the 500 response instead.
start_processing_done ==
  /\ pc = "api_start_3"
  /\ IF raised
       THEN response' = "error" /\ UNCHANGED is_processing
       ELSE response' = "started" /\ is_processing' = TRUE
  /\ pc' = "idle"
  /\ UNCHANGED <<outerVars, procVars, queueVars, profVars, stack, arg, last_ret,
                 raised, workerVars, driverVars>>

\* POST /api/processing/stop: "Processing is not running", or
\* audio_processor.stop().
stop_processing ==
  /\ mode = "api" /\ pc = "idle"
  /\ IF ~is_processing
       THEN /\ response' = "not_running"
            /\ UNCHANGED <<ctlVars>>
       ELSE /\ Call("stop_flag", "api_stop_2")
            /\ response' = "none"
            /\ UNCHANGED arg
  /\ UNCHANGED <<outerVars, procVars, queueVars, profVars, is_processing,
                 workerVars, driverVars>>

\* server_state["is_processing"] = False and the 200 response.
stop_processing_done ==
  /\ pc = "api_stop_2"
  /\ IF raised
       THEN response' = "error" /\ UNCHANGED is_processing
       ELSE response' = "stopped" /\ is_processing' = FALSE
  /\ pc' = "idle"
  /\ UNCHANGED <<outerVars, procVars, queueVars, profVars, stack, arg, last_ret,
                 raised, workerVars, driverVars>>

\* POST /api/processing/profile: 404 for a name the registry lacks, else
\* audio_processor.set_voice_profile(profile_name).
change_voice_profile(name) ==
  /\ mode = "api" /\ pc = "idle"
  /\ IF name \notin DOMAIN default_profiles
       THEN /\ response' = "not_found"
            /\ UNCHANGED <<ctlVars>>
       ELSE /\ arg' = name
            /\ Call("svp_name", "api_profile_2")
            /\ response' = "none"
  /\ UNCHANGED <<outerVars, procVars, queueVars, profVars, is_processing,
                 workerVars, driverVars>>

\* The 200 response "Voice profile changed".
change_voice_profile_done ==
  /\ pc = "api_profile_2"
  /\ response' = IF raised THEN "error" ELSE "changed"
  /\ pc' = "idle"
  /\ UNCHANGED <<outerVars, procVars, queueVars, profVars, stack, arg, last_ret,
                 raised, is_processing, workerVars, driverVars>>

\* ------------------------------------------------------ specification

Control ==
  \/ CallStart
  \/ CallStop
  \/ \E name \in ProfileInputs : CallSetVoiceProfile(name)
  \/ \E name \in ProfileInputs : start_processing(name)
  \/ start_processing_start
  \/ start_processing_done
  \/ stop_processing
  \/ stop_processing_done
  \/ \E name \in ProfileInputs : change_voice_profile(name)
  \/ change_voice_profile_done
  \/ SetVoiceProfileName
  \/ SetVoiceProfilePitch
  \/ SetVoiceProfileFormant
  \/ StartCheck
  \/ StartSpawn
  \/ StartOpenInput
  \/ StartOpenOutput
  \/ StartInputStream
  \/ StartOutputStream
  \/ StartFailedReturn
  \/ StopFlag
  \/ StopInput
  \/ StopOutput
  \/ StopJoin
  \/ StopClearInput
  \/ StopClearOutput

Worker ==
  \/ WorkerLoop
  \/ WorkerGet
  \/ TransformPitchTest
  \/ TransformPitchArg
  \/ TransformFormantTest
  \/ TransformFormantArg
  \/ TransformEffect
  \/ WorkerPut

Driver ==
  \/ AudioInputCallback
  \/ AudioOutputCallback

\* One statement of stop().
StopStep ==
  \/ StopFlag \/ StopInput \/ StopOutput \/ StopJoin
  \/ StopClearInput \/ StopClearOutput

Next == Control \/ Worker \/ Driver

Spec == Init /\ [][Next]_vars

\* ----------------------------------------------------------- samples

\* A sample is an exact fraction <<n, d>> in lowest terms, d > 0; numpy's
\* float rounding is left out.
RECURSIVE GCD(_, _)
GCD(a, b) == IF b = 0 THEN a ELSE GCD(b, a % b)

AbsInt(a) == IF a < 0 THEN -a ELSE a

Frac(n, d) ==
  LET g == GCD(AbsInt(n), AbsInt(d))
  IN  IF d < 0 THEN <<(-n) \div g, (-d) \div g>> ELSE <<n \div g, d \div g>>

Zero == <<0, 1>>
One == <<1, 1>>
FAdd(a, b) == Frac(a[1] * b[2] + b[1] * a[2], a[2] * b[2])
FSub(a, b) == Frac(a[1] * b[2] - b[1] * a[2], a[2] * b[2])
FMul(a, b) == Frac(a[1] * b[1], a[2] * b[2])
FDiv(a, b) == Frac(a[1] * b[2], a[2] * b[1])
FAbs(a) == <<AbsInt(a[1]), a[2]>>
FLess(a, b) == a[1] * b[2] < b[1] * a[2]

RECURSIVE FSum(_)
FSum(s) == IF s = <<>> THEN Zero ELSE FAdd(Head(s), FSum(Tail(s)))

\* np.max(np.abs(x)) of a block that has samples.
MaxAbs(x) ==
  CHOOSE m \in {FAbs(x[k]) : k \in DOMAIN x} :
    \A k \in DOMAIN x : ~FLess(m, FAbs(x[k]))

\* x / max_val * target
Rescale(x, max_val, target) ==
  [k \in DOMAIN x |-> FMul(FDiv(x[k], max_val), target)]

\* ------------------------------------------------- pitch_shift_audio

\* np.linspace(0, stop, n)[k], k counted from 0.
Linspace(stop, n, k) == IF n = 1 THEN Zero ELSE Frac(k * stop, n - 1)

\* np.interp(p, np.arange(len(x)), x) for 0 <= p <= len(x) - 1.
Interp(p, x) ==
  LET i == p[1] \div p[2]
  IN  IF i >= Len(x) - 1
        THEN x[Len(x)]
        ELSE FAdd(x[i + 1],
                  FMul(FSub(p, <<i, 1>>), FSub(x[i + 2], x[i + 1])))

\* A pad that adds nothing.
PadNone(x, n) == x

\* np.pad(x, (0, n))
Pad(x, n) == x \o [k \in 1..n |-> Zero]

\* A length rounded to the nearest integer.
NewLengthRound(original_length, shift_factor) ==
  (original_length * 200 + shift_factor) \div (2 * shift_factor)

\* int(original_length / shift_factor), the factor in hundredths
NewLength(original_length, shift_factor) ==
  (original_length * 100) \div shift_factor

\* pitch_shift_audio(audio_data, shift_factor).  np.interp raises on an
\* empty array of sample points.
pitch_shift_audio(audio_data, shift_factor) ==
  LET original_length == Len(audio_data)
      new_length == NewLength(original_length, shift_factor)
      shifted_audio ==
        [k \in 1..new_length |->
           Interp(Linspace(original_length - 1, new_length, k - 1),
                  audio_data)]
  IN  IF shift_factor = 100 THEN Ret(audio_data)
      ELSE IF original_length = 0 THEN Raise
      ELSE IF new_length > original_length
        THEN Ret(SubSeq(shifted_audio, 1, original_length))
        ELSE Ret(Pad(shifted_audio, original_length - new_length))

\* EmotionModulator._pitch_shift(audio_data, factor) of
\* advanced_effects.py.
_pitch_shift(audio_data, factor) ==
  LET original_length == Len(audio_data)
      new_length == NewLength(original_length, factor)
      new_indices ==
        [k \in 1..new_length |->
           Linspace(original_length - 1, new_length, k - 1)]
      shifted == [k \in 1..new_length |-> Interp(new_indices[k], audio_data)]
  IN  IF factor = 100 THEN Ret(audio_data)
      ELSE IF original_length = 0 THEN Raise
      ELSE IF Len(shifted) > original_length
        THEN Ret(SubSeq(shifted, 1, original_length))
        ELSE Ret(Pad(shifted, original_length - Len(shifted)))

\* ----------------------------------------------- apply_formant_shift

\* cos(2 pi j / N), j >= 0, for the lengths where it is rational.
Cos(N, j) ==
  LET r == j % N
  IN  CASE N = 1 -> One
        [] N = 2 -> <<One, <<-1, 1>>>>[r + 1]
        [] N = 3 -> <<One, <<-1, 2>>, <<-1, 2>>>>[r + 1]
        [] N = 4 -> <<One, Zero, <<-1, 1>>, Zero>>[r + 1]
        [] N = 6 -> <<One, <<1, 2>>, <<-1, 2>>, <<-1, 1>>, <<-1, 2>>,
                      <<1, 2>>>>[r + 1]

\* The bins i with np.fft.fftfreq(N)[i] > 0.
PositiveBins(N) == 1..((N - 1) \div 2)

\* The bin whose value ends in shifted_fft[k]: the last i of the loop with
\* int(i * shift_factor) = k; 0 when the loop leaves shifted_fft[k] at zero.
SourceBin(N, shift_factor, k) ==
  LET from == {i \in PositiveBins(N) : (i * shift_factor) \div 100 = k}
  IN  IF from = {} THEN 0 ELSE CHOOSE i \in from : \A j \in from : j <= i

\* np.real(np.fft.ifft(shifted_fft))[n], n counted from 0: with
\* shifted_fft[k] = fft[i] the term of input sample m is
\* x[m] * cos(2 pi (k n - i m) / N) / N.
ShiftedSample(x, shift_factor, n) ==
  LET N == Len(x)
      term(k, m) ==
        LET i == SourceBin(N, shift_factor, k)
        IN  IF i = 0 THEN Zero
            ELSE FMul(x[m + 1], Cos(N, k * n + (N - 1) * i * m))
  IN  FDiv(FSum([t \in 1..(N * N) |-> term((t - 1) \div N, (t - 1) % N)]),
           <<N, 1>>)

\* A formant shift that remaps the bins even at factor 1.0.
apply_formant_shift_always(audio_data, shift_factor) ==
  IF Len(audio_data) = 0 THEN Raise
  ELSE Ret([k \in 1..Len(audio_data) |->
              ShiftedSample(audio_data, shift_factor, k - 1)])

\* apply_formant_shift(audio_data, shift_factor).  np.fft.fft raises on an
\* empty block.
apply_formant_shift(audio_data, shift_factor) ==
  IF shift_factor = 100 THEN Ret(audio_data)
  ELSE IF Len(audio_data) = 0 THEN Raise
  ELSE Ret([k \in 1..Len(audio_data) |->
              ShiftedSample(audio_data, shift_factor, k - 1)])

\* ------------------------------------------------ apply_robot_effect

\* signal.filtfilt's default padlen for the 8th-order band-pass of
\* signal.butter(4, [300, 3000], btype='band'): 3 * 9 coefficients.
FiltfiltPadlen == 27

\* signal.square(2 * np.pi * carrier_freq * t)[k], k counted from 0.
Carrier(k) == IF ((200 * k) % 44100) * 2 < 44100 THEN One ELSE <<-1, 1>>

\* signal.filtfilt(b, a, x) on a block longer than padlen: a block of the
\* same length (its samples are not computed here).
Filtfilt(x) == CHOOSE y \in [DOMAIN x -> Int \X (Nat \ {0})] : TRUE

\* apply_robot_effect(audio_data).  filtfilt raises ValueError unless the
\* block is longer than padlen.
apply_robot_effect(audio_data) ==
  LET modulated ==
        [k \in DOMAIN audio_data |->
           FMul(FMul(audio_data[k], Carrier(k - 1)), <<1, 2>>)]
  IN  IF Len(audio_data) <= FiltfiltPadlen
        THEN Raise
        ELSE Ret(Filtfilt(modulated))

\* --------------------------------------------------- transform_audio

\* A normalization step that returns the block as it is.
NormalizeNone(transformed) ==
  IF Len(transformed) = 0 THEN Raise ELSE Ret(transformed)

\* max_val = np.max(np.abs(transformed)); if max_val > 0: transformed =
\* transformed / max_val * 0.8.  np.max raises on an empty block.
Normalize(transformed) ==
  IF Len(transformed) = 0 THEN Raise
  ELSE LET max_val == MaxAbs(transformed)
       IN  IF FLess(Zero, max_val)
             THEN Ret(Rescale(transformed, max_val, <<4, 5>>))
             ELSE Ret(transformed)

\* transform_audio(audio_data) of a processor whose attributes are pitch,
\* formant and name; an exception of a stage leaves the call.
transform_audio(audio_data, pitch, formant, name) ==
  LET a == IF pitch # 100
             THEN pitch_shift_audio(audio_data, pitch)
             ELSE Ret(audio_data)
      b == IF a.ok /\ formant # 100
             THEN apply_formant_shift(a.val, formant)
             ELSE a
      c == IF b.ok /\ name = "robot"
             THEN apply_robot_effect(b.val)
             ELSE b
  IN  IF c.ok THEN Normalize(c.val) ELSE c

\* ------------------------------------- calls from outside the pipeline

\* The block lengths and sample values a caller passes.  Cos is rational
\* for these lengths; length 4 at factor 0.8 resamples to 5 samples.
BlockLengths == {0, 1, 2, 3, 4}
InputSamples == {<<-1, 1>>, Zero, <<1, 2>>, <<2, 1>>}
Blocks == UNION {[1..L -> InputSamples] : L \in BlockLengths}

\* The factors a caller of the two shift stages passes: the table's.
PitchFactors == {profiles[n].pitch_shift : n \in DOMAIN profiles}
FormantFactors == {profiles[n].formant_shift : n \in DOMAIN profiles}

\* A processor that set_voice_profile has given a profile of its table and
\* that is not started (the state of an offline caller, demo_generator),
\* and the arguments of the call the caller is about to make.
DspInit ==
  /\ mode = "direct"
  /\ is_running = FALSE
  /\ input_queue = <<>>
  /\ output_queue = <<>>
  /\ processing_thread = FALSE
  /\ input_stream = "none"
  /\ output_stream = "none"
  /\ voice_profile \in DOMAIN profiles
  /\ pitch_shift = profiles[voice_profile].pitch_shift
  /\ formant_shift = profiles[voice_profile].formant_shift
  /\ pc = "idle"
  /\ stack = <<>>
  /\ arg = "-"
  /\ last_ret = "none"
  /\ raised = FALSE
  /\ is_processing = FALSE
  /\ response = "none"
  /\ wpc = "dead"
  /\ cur = NoBlock
  /\ next_id = 1
  /\ input_drops = 0
  /\ output_drops = 0
  /\ outdata = <<Stale, Stale>>
  /\ played = <<>>
  /\ processing_errors = 0
  /\ other_ctl = NoThread
  /\ other_wrk = <<"dead", NoBlock>>
  /\ thread_is_other = FALSE
  /\ transformation_log = <<>>
  /\ enable_watermarking = TRUE
  /\ require_disclaimer = TRUE
  /\ off_op = "none"
  /\ off_in \in [audio_data : Blocks,
                 shift_factor : PitchFactors \cup FormantFactors]
  /\ off_out = Ret(<<>>)

\* processor.transform_audio(block)
CallTransformAudio(block) ==
  /\ mode = "direct" /\ pc = "idle"
  /\ off_op' = "transform_audio"
  /\ off_in' = [audio_data |-> block, pitch |-> pitch_shift,
                formant |-> formant_shift, name |-> voice_profile]
  /\ off_out' = transform_audio(block, pitch_shift, formant_shift,
                                voice_profile)
  /\ UNCHANGED <<mode, processing_errors, raceVars, ethVars, procVars, queueVars, profVars,
                 ctlVars, apiVars, workerVars, driverVars>>

\* processor.pitch_shift_audio(block, factor)
CallPitchShiftAudio(block, factor) ==
  /\ mode = "direct" /\ pc = "idle"
  /\ off_op' = "pitch_shift_audio"
  /\ off_in' = [audio_data |-> block, shift_factor |-> factor]
  /\ off_out' = pitch_shift_audio(block, factor)
  /\ UNCHANGED <<mode, processing_errors, raceVars, ethVars, procVars, queueVars, profVars,
                 ctlVars, apiVars, workerVars, driverVars>>

\* processor.apply_formant_shift(block, factor)
CallApplyFormantShift(block, factor) ==
  /\ mode = "direct" /\ pc = "idle"
  /\ off_op' = "apply_formant_shift"
  /\ off_in' = [audio_data |-> block, shift_factor |-> factor]
  /\ off_out' = apply_formant_shift(block, factor)
  /\ UNCHANGED <<mode, processing_errors, raceVars, ethVars, procVars, queueVars, profVars,
                 ctlVars, apiVars, workerVars, driverVars>>

\* emotion_modulator._pitch_shift(block, factor)
CallEmotionPitchShift(block, factor) ==
  /\ mode = "direct" /\ pc = "idle"
  /\ off_op' = "_pitch_shift"
  /\ off_in' = [audio_data |-> block, shift_factor |-> factor]
  /\ off_out' = _pitch_shift(block, factor)
  /\ UNCHANGED <<mode, processing_errors, raceVars, ethVars, procVars, queueVars, profVars,
                 ctlVars, apiVars, workerVars, driverVars>>

\* The caller makes its one call, with the arguments it came with.
DspTransformAudio ==
  /\ off_op = "none"
  /\ CallTransformAudio(off_in.audio_data)

DspPitchShiftAudio ==
  /\ off_op = "none"
  /\ CallPitchShiftAudio(off_in.audio_data, off_in.shift_factor)

DspApplyFormantShift ==
  /\ off_op = "none"
  /\ CallApplyFormantShift(off_in.audio_data, off_in.shift_factor)

DspEmotionPitchShift ==
  /\ off_op = "none"
  /\ CallEmotionPitchShift(off_in.audio_data, off_in.shift_factor)

DspNext ==
  \/ DspTransformAudio
  \/ DspPitchShiftAudio
  \/ DspEmotionPitchShift
  \/ DspApplyFormantShift

DspSpec == DspInit /\ [][DspNext]_vars

\* ----------------------------------------------------- watermark.py

\* AudioWatermark.sample_rate
sample_rate == 44100

\* The values a sample of generate_watermark_signal's tone is taken to
\* have: sin(...) * watermark_amplitude lies between -0.001 and 0.001.
WatermarkSamples == {<<-1, 1000>>, Zero, <<1, 1000>>}

\* The first L samples of the tone; the first one is sin(0) = 0.
WatermarkSignals(L) ==
  {w \in [1..L -> WatermarkSamples] : L > 0 => w[1] = Zero}

\* An embed that rescales at every peak.
embed_watermark_rescales(audio_data, watermark) ==
  IF Len(audio_data) = 0 THEN Ret(audio_data)
  ELSE LET watermarked_audio ==
             [k \in DOMAIN audio_data |-> FAdd(audio_data[k], watermark[k])]
           max_val == MaxAbs(watermarked_audio)
       IN  IF FLess(Zero, max_val)
             THEN Ret(Rescale(watermarked_audio, max_val, <<19, 20>>))
             ELSE Ret(watermarked_audio)

\* embed_watermark(audio_data, metadata), watermark being the tone that
\* generate_watermark_signal built for the metadata, cut to the length.
embed_watermark(audio_data, watermark) ==
  IF Len(audio_data) = 0 THEN Ret(audio_data)
  ELSE LET watermarked_audio ==
             [k \in DOMAIN audio_data |-> FAdd(audio_data[k], watermark[k])]
           max_val == MaxAbs(watermarked_audio)
       IN  IF FLess(One, max_val)
             THEN Ret(Rescale(watermarked_audio, max_val, <<19, 20>>))
             ELSE Ret(watermarked_audio)

\* The longest log a run builds.
MaxLog == 2

\* The blocks and the profile names a caller passes to the ethics wrapper.
EthicsBlocks == {<<>>, <<Zero>>, <<<<2, 1>>>>, <<<<1, 2>>, <<-2, 1>>>>}
EthicsProfiles == {"child", "robot"}

\* A list.insert(0, entry).
LogPrepend(log, entry) == <<entry>> \o log

\* self.transformation_log.append(log_entry)
LogAppend(log, entry) == Append(log, entry)

\* An EthicalVoiceProcessor just built around a processor that
\* set_voice_profile has given a profile of its table.
EthicsInit ==
  /\ mode = "direct"
  /\ is_running = FALSE
  /\ input_queue = <<>>
  /\ output_queue = <<>>
  /\ processing_thread = FALSE
  /\ input_stream = "none"
  /\ output_stream = "none"
  /\ voice_profile \in DOMAIN profiles
  /\ pitch_shift = profiles[voice_profile].pitch_shift
  /\ formant_shift = profiles[voice_profile].formant_shift
  /\ pc = "idle"
  /\ stack = <<>>
  /\ arg = "-"
  /\ last_ret = "none"
  /\ raised = FALSE
  /\ is_processing = FALSE
  /\ response = "none"
  /\ wpc = "dead"
  /\ cur = NoBlock
  /\ next_id = 1
  /\ input_drops = 0
  /\ output_drops = 0
  /\ outdata = <<Stale, Stale>>
  /\ played = <<>>
  /\ processing_errors = 0
  /\ other_ctl = NoThread
  /\ other_wrk = <<"dead", NoBlock>>
  /\ thread_is_other = FALSE
  /\ transformation_log = <<>>
  /\ enable_watermarking = TRUE
  /\ require_disclaimer = TRUE
  /\ off_op = "none"
  /\ off_in = NoArgs
  /\ off_out = Ret(<<>>)

\* process_with_ethics(audio_data, profile): the log entry (its timestamp
\* left out) is appended first; then transform_audio of the processor's own
\* current profile; then embed_watermark when enabled.  An exception of
\* transform_audio leaves the call with the entry logged.
process_with_ethics(audio_data, profile) ==
  /\ mode = "direct" /\ pc = "idle"
  /\ Len(transformation_log) < MaxLog
  /\ off_op' = "process_with_ethics"
  /\ off_in' = [audio_data |-> audio_data, profile |-> profile,
                pitch |-> pitch_shift, formant |-> formant_shift,
                name |-> voice_profile]
  /\ transformation_log' =
       LogAppend(transformation_log,
                 [profile |-> profile,
                  duration |-> Frac(Len(audio_data), sample_rate),
                  watermarked |-> enable_watermarking])
  /\ LET transformed_audio ==
           transform_audio(audio_data, pitch_shift, formant_shift,
                           voice_profile)
     IN  IF transformed_audio.ok /\ enable_watermarking
           THEN \E w \in WatermarkSignals(Len(transformed_audio.val)) :
                  off_out' = embed_watermark(transformed_audio.val, w)
           ELSE off_out' = transformed_audio
  /\ UNCHANGED <<mode, processing_errors, raceVars, enable_watermarking, require_disclaimer,
                 procVars, queueVars, profVars, ctlVars, apiVars,
                 workerVars, driverVars>>

\* get_transformation_log(): return self.transformation_log.copy()
get_transformation_log ==
  /\ mode = "direct" /\ pc = "idle"
  /\ off_op' = "get_transformation_log"
  /\ off_in' = NoArgs
  /\ off_out' = Ret(transformation_log)
  /\ UNCHANGED <<mode, processing_errors, raceVars, ethVars, procVars, queueVars, profVars,
                 ctlVars, apiVars, workerVars, driverVars>>

\* clear_log(): self.transformation_log.clear()
clear_log ==
  /\ mode = "direct" /\ pc = "idle"
  /\ off_op' = "clear_log"
  /\ off_in' = NoArgs
  /\ off_out' = Ret(<<>>)
  /\ transformation_log' = <<>>
  /\ UNCHANGED <<mode, processing_errors, raceVars, enable_watermarking, require_disclaimer,
                 procVars, queueVars, profVars, ctlVars, apiVars,
                 workerVars, driverVars>>

\* set_ethical_settings(enable_watermarking, require_disclaimer)
set_ethical_settings(watermarking, disclaimer) ==
  /\ mode = "direct" /\ pc = "idle"
  /\ off_op' = "set_ethical_settings"
  /\ off_in' = NoArgs
  /\ off_out' = Ret(<<>>)
  /\ enable_watermarking' = watermarking
  /\ require_disclaimer' = disclaimer
  /\ UNCHANGED <<mode, processing_errors, raceVars, transformation_log, procVars, queueVars,
                 profVars, ctlVars, apiVars, workerVars, driverVars>>

EthicsNext ==
  \/ \E block \in EthicsBlocks, profile \in EthicsProfiles :
       process_with_ethics(block, profile)
  \/ \E block \in EthicsBlocks : CallTransformAudio(block)
  \/ get_transformation_log
  \/ clear_log
  \/ \E watermarking \in BOOLEAN, disclaimer \in BOOLEAN :
       set_ethical_settings(watermarking, disclaimer)

EthicsSpec == EthicsInit /\ [][EthicsNext]_vars

\* ------------------------------------- AudioWatermark on whole signals

\* AudioWatermark.watermark_freq
watermark_freq == 19000

\* A signal long enough to be analysed is described by its spectrum, not by
\* its samples: len samples of a 440 Hz sine of the given amplitude (in
\* thousandths), plus, once embed_watermark has run, the watermark tone at
\* watermark_freq + mark Hz.  gain tells whether embed_watermark rescaled
\* the sum.  With len = sample_rate every one of these frequencies is a bin
\* of the transform, so the energies below are exact sums over bins.
NoMark == -1
SignalLengths == {0, 1, 4409, sample_rate}
SineAmplitudes == {25, 250, 500, 700, 1000}

\* Signals that come with a tone of the watermark's shape from elsewhere,
\* at watermark_freq + mark Hz, in and around the band detect_watermark
\* looks at.
ForeignTones == {-100, -50, 150, 200}
Signals ==
  [len : SignalLengths, amplitude : SineAmplitudes,
   mark : {NoMark} \cup ForeignTones, gain : {"unit"}]

\* freq_offset = int(metadata_hash[:4], 16) % 100 of a metadata mapping;
\* an empty mapping gives no offset, which is offset 0.
MetadataOffsets == 0..99

\* The lines of sin(2 pi f t + 0.1 sin(2 pi 50 t)) * 0.001 at f + k Hz: the
\* squared amplitude of each, in millionths of 0.001^2 (the squares of the
\* Bessel values J0(0.1), J1(0.1), J2(0.1), rounded to add up to 1000000).
ToneLines ==
  (-100 :> 2) @@ (-50 :> 2494) @@ (0 :> 995008) @@ (50 :> 2494) @@
  (100 :> 2)

\* The peak of the sum can pass 1.0 only if the amplitudes add up to more
\* than 1.0; whether it does depends on the sampled phases.
MayClip(signal) == signal.amplitude + 1 > 1000

\* embed_watermark on a described signal: the empty signal is returned as
\* it is; else the tone is added and, if max_val > 1.0, the sum rescaled.
EmbedTone(signal, freq_offset, rescaled) ==
  IF signal.len = 0 THEN signal
  ELSE [signal EXCEPT !.mark = freq_offset,
                      !.gain = IF rescaled THEN "rescaled" ELSE "unit"]

\* A short-signal answer that is an exception.
ShortAnswerRaise == Raise

\* return False, None
NotDetected == Ret([detected |-> FALSE, metadata |-> <<>>])

\* The band taken as watermark_freq - 50 to watermark_freq + 50 Hz.
WatermarkEnergyNarrowBand(signal) ==
  LET f(k) == watermark_freq + signal.mark + k
      inband == {k \in DOMAIN ToneLines :
                   f(k) >= watermark_freq - 50 /\ f(k) <= watermark_freq + 50}
      RECURSIVE Sum(_)
      Sum(S) == IF S = {} THEN 0
                ELSE LET k == CHOOSE x \in S : TRUE
                     IN  ToneLines[k] + Sum(S \ {k})
  IN  IF signal.mark = NoMark THEN 0 ELSE Sum(inband)

\* np.sum(np.abs(fft[freq_mask])**2) with freq_mask the bins from
\* watermark_freq - 50 to watermark_freq + 150 Hz (positive frequencies
\* only), in units of (len/2)^2 * 10^-12.  The 440 Hz line lies outside.
WatermarkEnergy(signal) ==
  LET f(k) == watermark_freq + signal.mark + k
      inband == {k \in DOMAIN ToneLines :
                   f(k) >= watermark_freq - 50 /\ f(k) <= watermark_freq + 150}
      RECURSIVE Sum(_)
      Sum(S) == IF S = {} THEN 0
                ELSE LET k == CHOOSE x \in S : TRUE
                     IN  ToneLines[k] + Sum(S \ {k})
  IN  IF signal.mark = NoMark THEN 0 ELSE Sum(inband)

\* np.sum(np.abs(fft)**2), over the bins of both signs, in units of
\* (len/2)^2 * 10^-6: the sine's amplitude^2 and the tone's 0.001^2, twice.
TotalEnergy(signal) ==
  2 * (signal.amplitude * signal.amplitude
       + (IF signal.mark = NoMark THEN 0 ELSE 1))

\* freqs[freq_mask][np.argmax(np.abs(fft[freq_mask]))] - watermark_freq of
\* a signal with a line in the band: the offset of the strongest line in
\* the band, the lowest in frequency of equals.
PeakOffset(signal) ==
  LET f(k) == watermark_freq + signal.mark + k
      inband == {k \in DOMAIN ToneLines :
                   f(k) >= watermark_freq - 50 /\ f(k) <= watermark_freq + 150}
      peak == CHOOSE k \in inband :
                \A j \in inband :
                  \/ ToneLines[j] < ToneLines[k]
                  \/ ToneLines[j] = ToneLines[k] /\ k <= j
  IN  signal.mark + peak

\* A confidence that is the ratio itself.
DetectionConfidenceRaw(ratio) == ratio

\* min(energy_ratio / threshold, 1.0)
DetectionConfidence(ratio) == IF FLess(One, ratio) THEN One ELSE ratio

\* detect_watermark(audio_data).  energy_ratio / threshold, threshold being
\* 1e-6, is WatermarkEnergy / TotalEnergy in the units above; a rescaling
\* of the signal changes neither.
detect_watermark(signal) ==
  IF signal.len * 10 < sample_rate THEN NotDetected
  ELSE IF WatermarkEnergy(signal) > TotalEnergy(signal)
    THEN LET ratio == Frac(WatermarkEnergy(signal), TotalEnergy(signal))
         IN  Ret([detected |-> TRUE,
                  metadata |->
                    <<[frequency_offset |-> PeakOffset(signal),
                       detection_confidence |->
                         DetectionConfidence(ratio)]>>])
    ELSE NotDetected

\* An AudioWatermark and the signal and metadata its caller came with.
WatermarkInit ==
  /\ mode = "direct"
  /\ is_running = FALSE
  /\ input_queue = <<>>
  /\ output_queue = <<>>
  /\ processing_thread = FALSE
  /\ input_stream = "none"
  /\ output_stream = "none"
  /\ pitch_shift = 100
  /\ formant_shift = 100
  /\ voice_profile = "original"
  /\ pc = "idle"
  /\ stack = <<>>
  /\ arg = "-"
  /\ last_ret = "none"
  /\ raised = FALSE
  /\ is_processing = FALSE
  /\ response = "none"
  /\ wpc = "dead"
  /\ cur = NoBlock
  /\ next_id = 1
  /\ input_drops = 0
  /\ output_drops = 0
  /\ outdata = <<Stale, Stale>>
  /\ played = <<>>
  /\ processing_errors = 0
  /\ other_ctl = NoThread
  /\ other_wrk = <<"dead", NoBlock>>
  /\ thread_is_other = FALSE
  /\ transformation_log = <<>>
  /\ enable_watermarking = TRUE
  /\ require_disclaimer = TRUE
  /\ off_op = "none"
  /\ off_in \in [audio_data : Signals, freq_offset : MetadataOffsets]
  /\ off_out = Ret(<<>>)

\* watermark.embed_watermark(signal, metadata), of a signal that holds no
\* tone yet.
CallEmbedWatermark ==
  /\ off_op = "none"
  /\ off_in.audio_data.mark = NoMark
  /\ off_op' = "embed_watermark"
  /\ \E rescaled \in {FALSE, MayClip(off_in.audio_data)} :
       off_out' =
         Ret(EmbedTone(off_in.audio_data, off_in.freq_offset, rescaled))
  /\ UNCHANGED <<mode, processing_errors, raceVars, ethVars, off_in, procVars, queueVars,
                 profVars, ctlVars, apiVars, workerVars, driverVars>>

\* watermark.detect_watermark(signal) on the signal the caller came with,
\* or on the one embed_watermark returned.
CallDetectWatermark ==
  /\ off_op \in {"none", "embed_watermark"}
  /\ off_op' = "detect_watermark"
  /\ LET signal == IF off_op = "none" THEN off_in.audio_data ELSE off_out.val
     IN  /\ off_in' = [off_in EXCEPT !.audio_data = signal]
         /\ off_out' = detect_watermark(signal)
  /\ UNCHANGED <<mode, processing_errors, raceVars, ethVars, procVars, queueVars, profVars,
                 ctlVars, apiVars, workerVars, driverVars>>

WatermarkNext ==
  \/ CallEmbedWatermark
  \/ CallDetectWatermark

WatermarkSpec == WatermarkInit /\ [][WatermarkNext]_vars

\* ------------------------------------------ embed_watermark on blocks

\* Everything but the arguments of a caller that uses one of the offline
\* classes on its own: no pipeline is started, nothing is logged.
OfflineIdle ==
  /\ mode = "direct"
  /\ is_running = FALSE
  /\ input_queue = <<>>
  /\ output_queue = <<>>
  /\ processing_thread = FALSE
  /\ input_stream = "none"
  /\ output_stream = "none"
  /\ pitch_shift = 100
  /\ formant_shift = 100
  /\ voice_profile = "original"
  /\ pc = "idle"
  /\ stack = <<>>
  /\ arg = "-"
  /\ last_ret = "none"
  /\ raised = FALSE
  /\ is_processing = FALSE
  /\ response = "none"
  /\ wpc = "dead"
  /\ cur = NoBlock
  /\ next_id = 1
  /\ input_drops = 0
  /\ output_drops = 0
  /\ outdata = <<Stale, Stale>>
  /\ played = <<>>
  /\ processing_errors = 0
  /\ other_ctl = NoThread
  /\ other_wrk = <<"dead", NoBlock>>
  /\ thread_is_other = FALSE
  /\ transformation_log = <<>>
  /\ enable_watermarking = TRUE
  /\ require_disclaimer = TRUE
  /\ off_op = "none"
  /\ off_out = Ret(<<>>)

\* The block lengths up to 30 for which int((L / 44100) * 44100), computed
\* in double precision, is L - 1.
ShortToneLengths == {15, 23, 30}

\* num_samples = int(duration * self.sample_rate) with duration =
\* len(audio_data) / self.sample_rate
NumSamples(L) == IF L \in ShortToneLengths THEN L - 1 ELSE L

\* The tones: a tone repeats three sample values, in thousandths, the first
\* being sin(0) = 0.
TonePatterns == {<<0, 0, 0>>, <<0, 1, -1>>, <<0, -1, 1>>, <<0, 1, 1>>}

\* generate_watermark_signal(duration, metadata): num_samples samples
\* between -0.001 and 0.001.
generate_watermark_signal(num_samples, pattern) ==
  [k \in 1..num_samples |-> Frac(pattern[((k - 1) % 3) + 1], 1000)]

\* watermark[:len(audio_data)] of a longer tone;
\* np.tile(watermark, repeats)[:len(audio_data)] of a shorter one.
FitLength(watermark, L) ==
  IF Len(watermark) > L THEN SubSeq(watermark, 1, L)
  ELSE IF Len(watermark) < L
    THEN [k \in 1..L |-> watermark[((k - 1) % Len(watermark)) + 1]]
    ELSE watermark

\* The blocks a caller passes to embed_watermark: every block of up to two
\* samples, and blocks of 15 equal samples.
EmbedSamples == {<<-2, 1>>, Zero, <<1, 2>>, One, <<3, 2>>}
EmbedBlocks ==
  UNION {[1..L -> EmbedSamples] : L \in {0, 1, 2}}
    \cup {[k \in 1..15 |-> v] : v \in EmbedSamples}

EmbedInit ==
  /\ OfflineIdle
  /\ off_in \in [audio_data : EmbedBlocks, pattern : TonePatterns]

\* watermark.embed_watermark(block, metadata), the metadata being the one
\* whose tone has the pattern.  repeats divides by len(watermark).
CallEmbedWatermarkBlock ==
  /\ off_op = "none"
  /\ off_op' = "embed_watermark"
  /\ LET audio_data == off_in.audio_data
         L == Len(audio_data)
         watermark == generate_watermark_signal(NumSamples(L), off_in.pattern)
     IN  IF L = 0
           THEN /\ off_out' = Ret(audio_data)
                /\ off_in' = [audio_data |-> audio_data, watermark |-> <<>>]
           ELSE IF Len(watermark) = 0
             THEN /\ off_out' = Raise
                  /\ off_in' = [audio_data |-> audio_data, watermark |-> <<>>]
             ELSE /\ off_out' = embed_watermark(audio_data,
                                                FitLength(watermark, L))
                  /\ off_in' = [audio_data |-> audio_data,
                                watermark |-> FitLength(watermark, L)]
  /\ UNCHANGED <<mode, processing_errors, raceVars, ethVars, procVars, queueVars, profVars,
                 ctlVars, apiVars, workerVars, driverVars>>

EmbedNext == CallEmbedWatermarkBlock

EmbedSpec == EmbedInit /\ [][EmbedNext]_vars

\* --------------------------------- apply_formant_shift on the spectrum

\* The longest block whose spectrum is remapped in a run.
MaxBins == 24

\* The formant factors a caller passes, in hundredths.
RemapFactors == {50, 80, 95, 120, 130, 250}

\* An entry of shifted_fft that still holds the zero of np.zeros_like.
NoBin == -1

\* A loop that keeps the first value written to a bin.
RECURSIVE RemapLoopKeepFirst(_, _, _, _)
RemapLoopKeepFirst(shifted_fft, N, shift_factor, i) ==
  IF i = N THEN shifted_fft
  ELSE LET new_freq_idx == (i * shift_factor) \div 100
       IN  RemapLoopKeepFirst(
             IF /\ i \in PositiveBins(N)
                /\ new_freq_idx < N
                /\ shifted_fft[new_freq_idx + 1] = NoBin
               THEN [shifted_fft EXCEPT ![new_freq_idx + 1] = i]
               ELSE shifted_fft,
             N, shift_factor, i + 1)

\* "for i, freq in enumerate(freqs):" from iteration i on: "if freq > 0:
\* new_freq_idx = int(i * shift_factor); if new_freq_idx <
\* len(shifted_fft): shifted_fft[new_freq_idx] = fft[i]".  An entry of
\* shifted_fft is the number of the bin whose value it holds.
RECURSIVE RemapLoop(_, _, _, _)
RemapLoop(shifted_fft, N, shift_factor, i) ==
  IF i = N THEN shifted_fft
  ELSE LET new_freq_idx == (i * shift_factor) \div 100
       IN  RemapLoop(
             IF i \in PositiveBins(N) /\ new_freq_idx < N
               THEN [shifted_fft EXCEPT ![new_freq_idx + 1] = i]
               ELSE shifted_fft,
             N, shift_factor, i + 1)

\* shifted_fft as apply_formant_shift hands it to np.fft.ifft, for a block
\* of N samples.
ShiftedFft(N, shift_factor) ==
  RemapLoop([k \in 1..N |-> NoBin], N, shift_factor, 0)

RemapInit ==
  /\ OfflineIdle
  /\ off_in \in [N : 1..MaxBins, shift_factor : RemapFactors]

\* processor.apply_formant_shift(block, factor) up to the inverse
\* transform, for a block of off_in.N samples.
CallRemap ==
  /\ off_op = "none"
  /\ off_op' = "shifted_fft"
  /\ off_out' = Ret(ShiftedFft(off_in.N, off_in.shift_factor))
  /\ UNCHANGED <<mode, processing_errors, raceVars, ethVars, off_in, procVars, queueVars,
                 profVars, ctlVars, apiVars, workerVars, driverVars>>

RemapNext == CallRemap

RemapSpec == RemapInit /\ [][RemapNext]_vars

\* ------------------------------------ EnvironmentalEffects.apply_echo

\* delay_samples = int(delay_ms * self.sample_rate / 1000)
DelaySamples(delay_ms, rate) == (delay_ms * rate) \div 1000

\* "for i in range(delay_samples, len(echo_buffer)):" from iteration i on:
\* "if i - delay_samples < len(audio_data): echo_buffer[i] += feedback *
\* echo_buffer[i - delay_samples]".  The buffer is updated in place, so a
\* later iteration reads what an earlier one wrote.
RECURSIVE EchoLoop(_, _, _, _, _)
EchoLoop(echo_buffer, L, delay_samples, feedback, i) ==
  IF i >= Len(echo_buffer) THEN echo_buffer
  ELSE EchoLoop(
         IF i - delay_samples < L
           THEN [echo_buffer EXCEPT
                   ![i + 1] =
                     FAdd(@, FMul(feedback,
                                  echo_buffer[i - delay_samples + 1]))]
           ELSE echo_buffer,
         L, delay_samples, feedback, i + 1)

\* A mix that keeps the dry signal at full level.
MixFullDry(audio_data, wet_audio, wet_level) ==
  [k \in DOMAIN audio_data |->
     FAdd(audio_data[k], FMul(wet_level, wet_audio[k]))]

\* dry_level = 1.0 - wet_level;
\* dry_level * audio_data + wet_level * wet_audio
Mix(audio_data, wet_audio, wet_level) ==
  [k \in DOMAIN audio_data |->
     FAdd(FMul(FSub(One, wet_level), audio_data[k]),
          FMul(wet_level, wet_audio[k]))]

\* apply_echo(audio_data, delay_ms, feedback, wet_level) of an
\* EnvironmentalEffects built for the sample rate.
apply_echo(audio_data, delay_ms, feedback, wet_level, rate) ==
  LET L == Len(audio_data)
      delay_samples == DelaySamples(delay_ms, rate)
      echo_buffer ==
        EchoLoop(audio_data \o [k \in 1..delay_samples |-> Zero], L,
                 delay_samples, feedback, delay_samples)
      echo_audio == SubSeq(echo_buffer, 1, L)
  IN  IF delay_samples >= L THEN Ret(audio_data)
      ELSE Ret(Mix(audio_data, echo_audio, wet_level))

\* The arguments a caller passes to apply_echo, and the sample rates of
\* the effects object.
EchoSamples == {<<-1, 1>>, <<1, 2>>, <<2, 1>>}
EchoBlocks == UNION {[1..L -> EchoSamples] : L \in 0..3}
EchoDelays == {0, 1, 2, 5}
EchoFeedbacks == {Zero, <<1, 2>>, <<9, 10>>}
EchoWetLevels == {Zero, <<3, 10>>, One}
EchoRates == {1000, 2000}

EchoInit ==
  /\ OfflineIdle
  /\ off_in \in [audio_data : EchoBlocks, delay_ms : EchoDelays,
                 feedback : EchoFeedbacks, wet_level : EchoWetLevels,
                 rate : EchoRates]

\* effects.apply_echo(block, delay_ms, feedback, wet_level)
CallApplyEcho ==
  /\ off_op = "none"
  /\ off_op' = "apply_echo"
  /\ off_out' = apply_echo(off_in.audio_data, off_in.delay_ms,
                           off_in.feedback, off_in.wet_level, off_in.rate)
  /\ UNCHANGED <<mode, processing_errors, raceVars, ethVars, off_in, procVars, queueVars,
                 profVars, ctlVars, apiVars, workerVars, driverVars>>

EchoNext == CallApplyEcho

EchoSpec == EchoInit /\ [][EchoNext]_vars

\* ------------------------------------------------- the filter stages

\* What a filter stage does to the signal it is given: "filtered" when
\* signal.filtfilt ran on it (the signal being long enough for filtfilt),
\* "unmodified" when the stage was skipped.

\* scipy's iirfilter, under signal.butter: "Digital filter critical
\* frequencies must be 0 < Wn < 1" (0 < Wn < fs/2 with fs given), else
\* ValueError.  Frequencies and rates are in Hz.
ValidCutoff(freq, rate) == 0 < freq /\ 2 * freq < rate
Butter(cutoffs, rate) ==
  IF \A freq \in cutoffs : ValidCutoff(freq, rate)
    THEN Ret("filtered")
    ELSE Raise

\* EmotionModulator._apply_eq, one band: normalized_freq = freq / nyquist;
\* "if 0 < normalized_freq < 1:" the peaking filter, whose coefficients are
\* computed in place, is applied.
EqBand(freq, rate) ==
  IF 0 < freq /\ 2 * freq < rate THEN Ret("filtered") ELSE Ret("unmodified")

\* apply_reverb's damping of the impulse response, damping in hundredths:
\* "if damping > 0: cutoff_freq = 8000 * (1 - damping); ... if
\* normalized_cutoff < 1.0: signal.butter(2, normalized_cutoff)".
DampingCutoff(damping) == 80 * (100 - damping)
ReverbDamping(damping, rate) ==
  IF damping > 0
    THEN IF 2 * DampingCutoff(damping) < rate
           THEN Butter({DampingCutoff(damping)}, rate)
           ELSE Ret("unmodified")
    ELSE Ret("unmodified")

\* AudioProcessor.apply_robot_effect: signal.butter(4, [300, 3000],
\* btype='band', fs=self.sample_rate), under no condition.
RobotBandPass(rate) == Butter({300, 3000}, rate)

\* AdvancedVoiceEffects.apply_vocoder: "if low_freq < 1.0 and high_freq <
\* 1.0:" with 300 and 3000 Hz.
VocoderBandPass(rate) ==
  IF 2 * 300 < rate /\ 2 * 3000 < rate
    THEN Butter({300, 3000}, rate)
    ELSE Ret("unmodified")

\* apply_whisper_effect, the noise band: 500 and 4000 Hz.
WhisperBandPass(rate) ==
  IF 2 * 500 < rate /\ 2 * 4000 < rate
    THEN Butter({500, 4000}, rate)
    ELSE Ret("unmodified")

\* apply_whisper_effect, the high-pass: "if high_pass_freq < 1.0:" with
\* 200 Hz.
WhisperHighPass(rate) ==
  IF 2 * 200 < rate THEN Butter({200}, rate) ELSE Ret("unmodified")

\* apply_telephone_effect: 300 and 3400 Hz, "else: filtered = audio_data".
TelephoneBandPass(rate) ==
  IF 2 * 300 < rate /\ 2 * 3400 < rate
    THEN Butter({300, 3400}, rate)
    ELSE Ret("unmodified")

\* The sample rates the effect objects are built for, the damping values
\* (0.0 to 1.0, in hundredths) and the band frequencies a caller passes.
FilterRates == {300, 4000, 6000, 8000, 44100}
Dampings == {0, 30, 50, 99, 100}
EqFrequencies == {0, 800, 4000, 22050}

\* The cutoffs of the stage that was called.
StageCutoffs ==
  CASE off_op = "_apply_eq" -> {off_in.freq}
    [] off_op = "apply_reverb" -> {DampingCutoff(off_in.damping)}
    [] off_op = "apply_robot_effect" -> {300, 3000}
    [] off_op = "apply_vocoder" -> {300, 3000}
    [] off_op = "apply_whisper_effect band" -> {500, 4000}
    [] off_op = "apply_whisper_effect high" -> {200}
    [] off_op = "apply_telephone_effect" -> {300, 3400}
    [] OTHER -> {}

FilterInit ==
  /\ OfflineIdle
  /\ off_in \in [rate : FilterRates, damping : Dampings,
                 freq : EqFrequencies]

\* A stage is run, in the effect that holds it.
FilterStage(op, outcome) ==
  /\ off_op' = op
  /\ off_out' = outcome
  /\ UNCHANGED <<mode, processing_errors, raceVars, ethVars, off_in, procVars, queueVars,
                 profVars, ctlVars, apiVars, workerVars, driverVars>>

CallApplyEq ==
  /\ off_op = "none"
  /\ FilterStage("_apply_eq", EqBand(off_in.freq, off_in.rate))

CallApplyReverb ==
  /\ off_op = "none"
  /\ off_in.damping > 0
  /\ FilterStage("apply_reverb", ReverbDamping(off_in.damping, off_in.rate))

CallApplyRobotEffect ==
  /\ off_op = "none"
  /\ FilterStage("apply_robot_effect", RobotBandPass(off_in.rate))

CallApplyVocoder ==
  /\ off_op = "none"
  /\ FilterStage("apply_vocoder", VocoderBandPass(off_in.rate))

CallApplyWhisperBand ==
  /\ off_op = "none"
  /\ FilterStage("apply_whisper_effect band", WhisperBandPass(off_in.rate))

CallApplyWhisperHigh ==
  /\ off_op = "none"
  /\ FilterStage("apply_whisper_effect high", WhisperHighPass(off_in.rate))

CallApplyTelephone ==
  /\ off_op = "none"
  /\ FilterStage("apply_telephone_effect", TelephoneBandPass(off_in.rate))

FilterNext ==
  \/ CallApplyEq
  \/ CallApplyReverb
  \/ CallApplyRobotEffect
  \/ CallApplyVocoder
  \/ CallApplyWhisperBand
  \/ CallApplyWhisperHigh
  \/ CallApplyTelephone

FilterSpec == FilterInit /\ [][FilterNext]_vars

\* ------------------------------------------- two callers at the same time

\* A thread that is about to run its one call of start() or stop().
StartCaller == <<"start_check", <<"exited">>, "-", "none", FALSE>>
StopCaller == <<"stop_flag", <<"exited">>, "-", "none", FALSE>>

\* The profiles set_voice_profile has selected before the two callers run.
RaceProfiles == {"original", "child"}

\* An AudioProcessor that was given a profile and never started, shared by
\* two threads: one calls start() while the other calls start() or stop()
\* (two requests served at once by the threaded Flask server, or two
\* threads of a script).
RaceInit ==
  /\ mode = "direct"
  /\ is_running = FALSE
  /\ input_queue = <<>>
  /\ output_queue = <<>>
  /\ processing_thread = FALSE
  /\ input_stream = "none"
  /\ output_stream = "none"
  /\ voice_profile \in RaceProfiles
  /\ pitch_shift = profiles[voice_profile].pitch_shift
  /\ formant_shift = profiles[voice_profile].formant_shift
  /\ pc = StartCaller[1]
  /\ stack = StartCaller[2]
  /\ arg = StartCaller[3]
  /\ last_ret = StartCaller[4]
  /\ raised = StartCaller[5]
  /\ is_processing = FALSE
  /\ response = "none"
  /\ wpc = "dead"
  /\ cur = NoBlock
  /\ next_id = 1
  /\ input_drops = 0
  /\ output_drops = 0
  /\ outdata = <<Stale, Stale>>
  /\ played = <<>>
  /\ processing_errors = 0
  /\ other_ctl \in {StartCaller, StopCaller}
  /\ other_wrk = <<"dead", NoBlock>>
  /\ thread_is_other = FALSE
  /\ transformation_log = <<>>
  /\ enable_watermarking = TRUE
  /\ require_disclaimer = TRUE
  /\ off_op = "none"
  /\ off_in = NoArgs
  /\ off_out = Ret(<<>>)

\* The interpreter switches from one calling thread to the other: the
\* actions of start() and stop() run for the thread whose context is in
\* pc, stack, arg, last_ret, raised.
SwitchCaller ==
  /\ other_ctl' = <<pc, stack, arg, last_ret, raised>>
  /\ pc' = other_ctl[1]
  /\ stack' = other_ctl[2]
  /\ arg' = other_ctl[3]
  /\ last_ret' = other_ctl[4]
  /\ raised' = other_ctl[5]
  /\ UNCHANGED <<mode, processing_errors, other_wrk, thread_is_other, offVars, procVars,
                 queueVars, profVars, apiVars, workerVars, driverVars>>

\* The interpreter switches from one worker thread to the other: the
\* actions of processing_worker run for the thread whose context is in
\* wpc, cur.
SwitchWorker ==
  /\ other_wrk' = <<wpc, cur>>
  /\ wpc' = other_wrk[1]
  /\ cur' = other_wrk[2]
  /\ thread_is_other' = (processing_thread /\ ~thread_is_other)
  /\ UNCHANGED <<mode, processing_errors, other_ctl, offVars, procVars, queueVars, profVars,
                 ctlVars, apiVars, driverVars>>

\* The statements of start() and stop() and of the code they call.
StartStopStep ==
  \/ StartCheck
  \/ StartSpawn
  \/ StartOpenInput
  \/ StartOpenOutput
  \/ StartInputStream
  \/ StartOutputStream
  \/ StartFailedReturn
  \/ StopFlag
  \/ StopInput
  \/ StopOutput
  \/ StopJoin
  \/ StopClearInput
  \/ StopClearOutput

RaceNext ==
  \/ StartStopStep
  \/ SwitchCaller
  \/ SwitchWorker
  \/ Worker
  \/ Driver

RaceSpec == RaceInit /\ [][RaceNext]_vars

\* ------------------------------------- blocks on which transform fails

\* An AudioProcessor that was given a profile, driven by a script that
\* calls start() and stop(); any block may be one transform_audio raises
\* for.
FaultInit ==
  /\ mode = "direct"
  /\ is_running = FALSE
  /\ input_queue = <<>>
  /\ output_queue = <<>>
  /\ processing_thread = FALSE
  /\ input_stream = "none"
  /\ output_stream = "none"
  /\ voice_profile \in RaceProfiles
  /\ pitch_shift = profiles[voice_profile].pitch_shift
  /\ formant_shift = profiles[voice_profile].formant_shift
  /\ pc = "idle"
  /\ stack = <<>>
  /\ arg = "-"
  /\ last_ret = "none"
  /\ raised = FALSE
  /\ is_processing = FALSE
  /\ response = "none"
  /\ wpc = "dead"
  /\ cur = NoBlock
  /\ next_id = 1
  /\ input_drops = 0
  /\ output_drops = 0
  /\ outdata = <<Stale, Stale>>
  /\ played = <<>>
  /\ processing_errors = 0
  /\ other_ctl = NoThread
  /\ other_wrk = <<"dead", NoBlock>>
  /\ thread_is_other = FALSE
  /\ transformation_log = <<>>
  /\ enable_watermarking = TRUE
  /\ require_disclaimer = TRUE
  /\ off_op = "none"
  /\ off_in = NoArgs
  /\ off_out = Ret(<<>>)

\* A step of the worker thread.
FaultWorker == Worker \/ WorkerExcept

FaultNext ==
  \/ CallStart
  \/ CallStop
  \/ StartStopStep
  \/ Worker
  \/ WorkerExcept
  \/ Driver

\* The worker is a started thread: a step it can take is taken in the end.
FaultSpec == FaultInit /\ [][FaultNext]_vars /\ WF_vars(FaultWorker)

\* The worker is a started thread and the caller of stop() keeps running:
\* a step either of them can take is taken in the end.
FairSpec == Spec /\ WF_vars(Worker) /\ WF_vars(StopStep)

\* ------------------------------------------------------ type invariant

TypeOK ==
  /\ mode \in {"api", "direct"}
  /\ is_running \in BOOLEAN
  /\ processing_thread \in BOOLEAN
  /\ input_stream \in {"none", "open", "active"}
  /\ output_stream \in {"none", "open", "active"}
  /\ voice_profile \in ProfileInputs
  /\ raised \in BOOLEAN
  /\ is_processing \in BOOLEAN
  /\ next_id \in 1..(MaxBlocks + 1)
  /\ Len(outdata) = OutputChannels

\* ================================================================ claims

\* The blocks in the pipeline, oldest stage first: played, waiting to be
\* played, held by the worker, waiting to be transformed.
Held == IF cur.id # 0 THEN <<cur.id>> ELSE <<>>
Pipeline == played \o output_queue \o Held \o input_queue

\* The pipeline at rest: flag cleared, no worker, no streams, no blocks.
Stopped ==
  /\ ~is_running
  /\ wpc = "dead"
  /\ ~processing_thread
  /\ input_stream = "none"
  /\ output_stream = "none"
  /\ input_queue = <<>>
  /\ output_queue = <<>>

\* A capacity smaller than the number of blocks the driver submits.
SomeCapacity == MaxBlocks - 1

\* C1: the name, pitch factor and formant factor transform_audio used for a
\* block all belong to one profile: the pair of factors is one table
\* entry's, and it is the entry of the name when the table has the name.
C1_ProfileSwapAtomic ==
  wpc = "put" =>
    \E m \in DOMAIN profiles :
      /\ cur.pitch = profiles[m].pitch_shift
      /\ cur.formant = profiles[m].formant_shift
      /\ cur.name \in DOMAIN profiles => profiles[cur.name] = profiles[m]

\* C2: once set_voice_profile(name) has returned for a name the registry
\* holds, the factors transform_audio reads are the registry profile's.
C2_RegistryFactorsApplied ==
  (last_ret = "set_voice_profile" /\ voice_profile \in DOMAIN default_profiles)
    => /\ pitch_shift = default_profiles[voice_profile].pitch_shift
       /\ formant_shift = default_profiles[voice_profile].formant_shift

\* C3: blocks keep their submission order through every stage: a block
\* submitted earlier is never behind one submitted later.
C3_SubmissionOrder ==
  \A i, j \in 1..Len(Pipeline) : i < j => Pipeline[i] < Pipeline[j]

\* Two blocks have been played while a third is still on its way.
C3_Witness ==
  /\ Len(played) >= 2
  /\ Len(Pipeline) > Len(played)

\* C4: once the driver has submitted more blocks than the input queue's
\* capacity without the worker draining any, the drop counter has increased.
C4_SubmitDropsWhenFull ==
  Len(input_queue) > SomeCapacity => input_drops > 0

\* C5: neither queue ever holds more blocks than a fixed capacity.
C5_QueuesBounded ==
  /\ Len(input_queue) <= SomeCapacity
  /\ Len(output_queue) <= SomeCapacity

\* C6: the render callback is never blocked while its stream runs, and each
\* time the buffer changes it is either all zeros written on an empty output
\* queue, with both queues left alone, or the head block removed from the
\* output queue and written to every channel.
C6_RetrieveSilenceOrHead ==
  /\ [](output_stream = "active" => ENABLED AudioOutputCallback)
  /\ [][outdata' # outdata =>
          IF output_queue = <<>>
            THEN /\ \A c \in DOMAIN outdata' : outdata'[c] = 0
                 /\ UNCHANGED <<input_queue, output_queue>>
            ELSE /\ \A c \in DOMAIN outdata' : outdata'[c] = Head(output_queue)
                 /\ output_queue' = Tail(output_queue)
                 /\ UNCHANGED input_queue]_vars

\* A block has been played and the queue has then run empty: silence.
C6_Witness ==
  /\ played # <<>>
  /\ \A c \in DOMAIN outdata : outdata[c] = 0

\* C7: no block is in two places at once, and none is played twice: the
\* blocks played, queued for output, held by the worker and queued for input
\* are pairwise different.
C7_ConsumedOnce ==
  \A i, j \in 1..Len(Pipeline) : i # j => Pipeline[i] # Pipeline[j]

\* Every stage after capture holds a block at the same time.
C7_Witness ==
  /\ played # <<>>
  /\ output_queue # <<>>
  /\ cur.id # 0

\* C8: after a start() whose stream set-up failed has returned, the
\* pipeline is fully torn down.
C8_FailedStartTearsDown ==
  last_ret = "start_failed" => Stopped

\* The failure came after the capture stream had delivered blocks.
C8_Witness ==
  /\ last_ret = "start_failed"
  /\ next_id > 1

\* C9: a start() whose stream set-up failed raises to its caller.
C9_FailedStartRaises ==
  last_ret = "start_failed" => raised

\* C10: after stop() has returned the pipeline is fully stopped.
C10_StopLeavesStopped ==
  last_ret = "stop" => Stopped

\* A stop() called on a pipeline that had played a block and still held
\* others, which it discarded.
C10_Witness ==
  /\ last_ret = "stop"
  /\ pc = "idle"
  /\ played # <<>>
  /\ next_id - 1 > Len(played)

\* The positions of stop().
StopPcs == {"stop_flag", "stop_in", "stop_out", "stop_join",
            "stop_clear_in", "stop_clear_out"}

\* C11: stop() on a pipeline that is already Stopped is a no-op: each of its
\* statements can run (none waits), none raises, the pipeline stays Stopped
\* throughout, and the call returns normally.
C11_StopIdempotent ==
  /\ [](pc \in StopPcs /\ Stopped => ENABLED StopStep)
  /\ [][(pc \in StopPcs /\ Stopped) =>
          /\ Stopped'
          /\ UNCHANGED profVars
          /\ ~raised'
          /\ pc' \notin StopPcs => last_ret' = "stop"]_vars

\* A stop() called after a run that played audio and was already stopped:
\* the thread attribute is None before the join is reached.
C11_Witness ==
  /\ pc = "stop_join"
  /\ Stopped
  /\ played # <<>>

\* The worker's positions while it holds a dequeued block.
MidBlock == {"t_pitch", "t_pitch_arg", "t_formant", "t_formant_arg",
             "t_effect", "put"}

\* C12: once stop() has cleared the flag, the worker exits and the join
\* returns; the worker exits at its loop test only, the first one it reaches
\* (so after at most one further block), and never while it holds a block.
C12_StopShutsWorkerDown ==
  /\ (pc = "stop_in" /\ wpc # "dead") ~> (wpc = "dead")
  /\ (pc = "stop_join") ~> (pc = "stop_clear_in" /\ wpc = "dead")
  /\ [](~is_running /\ wpc # "dead" =>
          pc \in {"stop_in", "stop_out", "stop_join"})
  /\ [][/\ (~is_running /\ wpc = "loop" /\ wpc' # "loop") => wpc' = "dead"
        /\ (wpc # "dead" /\ wpc' = "dead") => (wpc = "loop" /\ cur = NoBlock)
        /\ (wpc \in MidBlock /\ wpc' \notin MidBlock) =>
             /\ wpc = "put"
             /\ wpc' = "loop"
             /\ \/ output_queue' = QueuePut(output_queue, cur.id)
                \/ output_drops' = output_drops + 1]_vars

\* stop() waits in its join while the worker, which was holding a block
\* when the flag was cleared, finishes that block.
C12_Witness ==
  /\ pc = "stop_join"
  /\ ~is_running
  /\ wpc = "put"

\* C13: at most one worker thread of the pipeline is alive at any time,
\* whatever the interleaving of the callers of start() and stop().
C13_AtMostOneWorker == ~(wpc # "dead" /\ other_wrk[1] # "dead")

\* C20: with watermarking enabled, the worker comes to its enqueue
\* (put_nowait) from a watermark-embed step that follows the transform, so
\* that each block it enqueues carries the watermark.
C20_EmbedBeforeEnqueue ==
  [][(enable_watermarking /\ wpc # "put" /\ wpc' = "put") =>
       wpc = "embed_watermark"]_vars

\* A call of the named function or method has returned or raised.
Called(op) == off_op = op

\* C14 as stated: for every input block, transform_audio returns a block
\* of as many samples as the input has.
C14_LengthPreserved ==
  Called("transform_audio") =>
    /\ off_out.ok
    /\ Len(off_out.val) = Len(off_in.audio_data)

\* C14, amended: a block that transform_audio or pitch_shift_audio returns
\* has as many samples as the input, and transform_audio returns one for
\* every input that has samples, unless the profile is "robot" (whose
\* filter rejects a block of at most FiltfiltPadlen samples).
C14_LengthPreservedWhenReturned ==
  /\ (Called("transform_audio") \/ Called("pitch_shift_audio")) /\ off_out.ok
       => Len(off_out.val) = Len(off_in.audio_data)
  /\ Called("transform_audio") /\ Len(off_in.audio_data) > 0
       /\ off_in.name # "robot"
       => off_out.ok

\* transform_audio resampled a 4-sample block at pitch factor 0.8 to 5
\* samples and returned 4 of them, not all zero.
C14_Witness ==
  /\ Called("transform_audio")
  /\ off_in.pitch = 80
  /\ Len(off_in.audio_data) = 4
  /\ off_out.ok
  /\ Len(off_out.val) = 4
  /\ \E k \in 1..4 : off_out.val[k] # Zero

\* The profile has factors 1.0 and 1.0 and no special effect.
UnitProfile ==
  /\ off_in.pitch = 100
  /\ off_in.formant = 100
  /\ off_in.name # "robot"

C16_AmplitudeAtMostOne ==
  (Called("transform_audio") \/ Called("process_with_ethics")) /\ off_out.ok
    => \A k \in DOMAIN off_out.val : ~FLess(One, FAbs(off_out.val[k]))

\* process_with_ethics was given a block that peaks above 1.0 and returned
\* it normalized and watermarked: a sample lies above the 0.8 of the
\* normalization.
C16_Witness ==
  /\ Called("process_with_ethics")
  /\ off_out.ok
  /\ Len(off_in.audio_data) > 0
  /\ FLess(One, MaxAbs(off_in.audio_data))
  /\ \E k \in DOMAIN off_out.val : FLess(<<4, 5>>, FAbs(off_out.val[k]))

\* C19 as stated: no operation of the ethics wrapper removes or changes an
\* entry of the transformation log; the log only grows at its end.
C19_LogAppendOnly ==
  [][/\ Len(transformation_log') >= Len(transformation_log)
     /\ SubSeq(transformation_log', 1, Len(transformation_log)) =
          transformation_log]_vars

\* C19, amended: process_with_ethics appends one entry and keeps the
\* others; get_transformation_log, set_ethical_settings and transform_audio
\* leave the log as it is; clear_log removes every entry.
C19_LogAppendOnlyUntilCleared ==
  [][CASE off_op' = "process_with_ethics" ->
            /\ Len(transformation_log') = Len(transformation_log) + 1
            /\ SubSeq(transformation_log', 1, Len(transformation_log)) =
                 transformation_log
            /\ transformation_log'[Len(transformation_log')].profile =
                 off_in'.profile
       [] off_op' = "clear_log" -> transformation_log' = <<>>
       [] OTHER -> transformation_log' = transformation_log]_vars

\* get_transformation_log returned a log of two different entries.
C19_Witness ==
  /\ Called("get_transformation_log")
  /\ Len(off_out.val) = 2
  /\ off_out.val[1] # off_out.val[2]
  /\ off_out.val = transformation_log

\* detect_watermark was run on what embed_watermark returned for a signal
\* of one second.
RoundTrip ==
  /\ Called("detect_watermark")
  /\ off_in.audio_data.len = sample_rate
  /\ off_in.audio_data.mark \in MetadataOffsets

\* detect_watermark reports the watermark, with a confidence above 0.
Detected ==
  /\ off_out.ok
  /\ off_out.val.detected
  /\ Len(off_out.val.metadata) = 1
  /\ FLess(Zero, off_out.val.metadata[1].detection_confidence)

C18_ShortNotDetected ==
  Called("detect_watermark") /\ off_in.audio_data.len * 10 < sample_rate
    => off_out = Ret([detected |-> FALSE, metadata |-> <<>>])

\* detect_watermark was run on a watermarked signal one sample short of
\* 0.1 s, and reported nothing.
C18_Witness ==
  /\ Called("detect_watermark")
  /\ off_in.audio_data.len = 4409
  /\ off_in.audio_data.mark # NoMark
  /\ off_out.ok
  /\ ~off_out.val.detected

\* C27: whenever the control plane is between two requests,
\* server_state["is_processing"] is true exactly when the processor's
\* running flag is set and its worker is alive.
C27_FlagAgreesWithPipeline ==
  mode = "api" /\ pc = "idle" =>
    (is_processing <=> (is_running /\ wpc # "dead"))

\* C28: the entry process_with_ethics appended names the profile that
\* transform_audio applied to the block, and the transformation completed.
C28_LogNamesAppliedProfile ==
  Called("process_with_ethics") =>
    /\ transformation_log[Len(transformation_log)].profile = off_in.name
    /\ off_out.ok

\* The factors in effect.
Factors == [pitch_shift |-> pitch_shift, formant_shift |-> formant_shift]

\* C30: set_voice_profile(name) with a name its table lacks stores the name,
\* leaves both factors as they are and returns; after a call with a name of
\* the table has returned the factors are that entry's; the factors start
\* at 1.0 / 1.0 and change in no other way.
C30_UnknownNameKeepsFactors ==
  /\ Factors = profiles["original"]
  /\ [][pc = "svp_name" /\ pc' # pc /\ arg \notin DOMAIN profiles =>
          /\ voice_profile' = arg
          /\ Factors' = Factors
          /\ last_ret' = "set_voice_profile"]_vars
  /\ [][Factors' # Factors =>
          /\ pc \in {"svp_pitch", "svp_formant"}
          /\ arg \in DOMAIN profiles]_vars
  /\ [](last_ret = "set_voice_profile" /\ arg \in DOMAIN profiles =>
          voice_profile = arg /\ Factors = profiles[arg])

\* set_voice_profile has returned for a name the table lacks, and the
\* factors are still those of the earlier "male".
C30_Witness ==
  /\ last_ret = "set_voice_profile"
  /\ voice_profile = "male_deep"
  /\ arg = "male_deep"
  /\ Factors = profiles["male"]

\* C29: when detect_watermark reports a watermark its detection_confidence
\* is exactly 1.0 and its frequency_offset lies within -50..150; when it
\* reports none it returns no metadata.
C29_ConfidenceOneOffsetInBand ==
  Called("detect_watermark") /\ off_out.ok =>
    IF off_out.val.detected
      THEN /\ Len(off_out.val.metadata) = 1
           /\ off_out.val.metadata[1].detection_confidence = One
           /\ off_out.val.metadata[1].frequency_offset \in -50..150
      ELSE off_out.val.metadata = <<>>

\* A quiet signal with a tone whose carrier lies below the band: the
\* strongest line in the band is a sideband, at the band's lower edge.
C29_Witness ==
  /\ Called("detect_watermark")
  /\ off_in.audio_data.mark = -100
  /\ off_out.ok
  /\ off_out.val.detected
  /\ off_out.val.metadata[1].frequency_offset = -50
  /\ off_out.val.metadata[1].detection_confidence = One

\* C25: embed_watermark returns a block of the input's length, the empty
\* block as it is; if the peak of input + tone is above 1.0 the result is
\* input + tone with every sample scaled by one factor and its peak is
\* 0.95, else it is input + tone; the caller's block stays as it was.
C25_EmbedKeepsLengthAndPeak ==
  [][off_op' = "embed_watermark" =>
       LET x == off_in'.audio_data
           sum == [k \in DOMAIN x |-> FAdd(x[k], off_in'.watermark[k])]
           y == off_out'.val
       IN  /\ x = off_in.audio_data
           /\ off_out'.ok
           /\ Len(y) = Len(x)
           /\ Len(x) = 0 => y = x
           /\ Len(x) > 0 /\ FLess(One, MaxAbs(sum)) =>
                /\ MaxAbs(y) = <<19, 20>>
                /\ \E k \in DOMAIN x :
                     /\ sum[k] # Zero
                     /\ \A j \in DOMAIN x :
                          y[j] = FMul(sum[j], FDiv(y[k], sum[k]))
           /\ Len(x) > 0 /\ ~FLess(One, MaxAbs(sum)) => y = sum]_vars

\* A block of 15 samples at 1.0, for which the tone is generated one sample
\* short and tiled: the sum peaks at 1.001 and is scaled down to 0.95.
C25_Witness ==
  /\ Called("embed_watermark")
  /\ Len(off_in.audio_data) = 15
  /\ off_in.audio_data[1] = One
  /\ off_in.watermark[15] = Zero
  /\ off_in.watermark[14] # Zero
  /\ Len(off_out.val) = 15
  /\ MaxAbs(off_out.val) = <<19, 20>>

\* What a pitch shift by f # 1 returns for the block x: with n =
\* floor(L / f) samples interpolated at n evenly spaced positions over
\* 0..L-1, sample k (from 0) is the k-th of them for k < n and zero from n
\* on.
Resampled(x, f) ==
  LET L == Len(x)
      n == (L * 100) \div f
      position(k) == IF n = 1 THEN Zero ELSE Frac(k * (L - 1), n - 1)
      lower(k) == (k * (L - 1)) \div (IF n = 1 THEN 1 ELSE n - 1)
      at(k) ==
        IF lower(k) >= L - 1 THEN x[L]
        ELSE FAdd(FMul(FSub(<<lower(k) + 1, 1>>, position(k)),
                       x[lower(k) + 1]),
                  FMul(FSub(position(k), <<lower(k), 1>>),
                       x[lower(k) + 2]))
  IN  [k \in 1..L |-> IF k <= n THEN at(k - 1) ELSE Zero]

\* One of the two pitch shifts was called with a factor other than 1.0.
PitchShifted ==
  /\ Called("pitch_shift_audio") \/ Called("_pitch_shift")
  /\ off_in.shift_factor # 100

\* C22 as stated: a pitch shift by f # 1 of a block of any length L returns
\* the L resampled samples, zeros from floor(L / f) on; pitch_shift_audio
\* and _pitch_shift return the same for every block and factor.
C22_PitchShiftResamples ==
  /\ PitchShifted =>
       /\ off_out.ok
       /\ off_out.val = Resampled(off_in.audio_data, off_in.shift_factor)
  /\ Called("pitch_shift_audio") =>
       off_out = _pitch_shift(off_in.audio_data, off_in.shift_factor)
  /\ Called("_pitch_shift") =>
       off_out = pitch_shift_audio(off_in.audio_data, off_in.shift_factor)

\* C22, amended: the same for a block of at least one sample; on the empty
\* block both raise.
C22_PitchShiftResamplesNonEmpty ==
  /\ PitchShifted =>
       IF Len(off_in.audio_data) = 0 THEN ~off_out.ok
       ELSE /\ off_out.ok
            /\ off_out.val = Resampled(off_in.audio_data, off_in.shift_factor)
  /\ Called("pitch_shift_audio") =>
       off_out = _pitch_shift(off_in.audio_data, off_in.shift_factor)
  /\ Called("_pitch_shift") =>
       off_out = pitch_shift_audio(off_in.audio_data, off_in.shift_factor)

\* _pitch_shift by 1.5 of four samples: two interpolated samples, then two
\* zeros where the block had none.
C22_Witness ==
  /\ Called("_pitch_shift")
  /\ off_in.shift_factor = 150
  /\ Len(off_in.audio_data) = 4
  /\ off_in.audio_data[3] # Zero
  /\ off_in.audio_data[4] # Zero
  /\ off_out.ok
  /\ off_out.val[2] = off_in.audio_data[4]
  /\ off_out.val[3] = Zero
  /\ off_out.val[4] = Zero

\* C23: after a formant shift by g # 1 of a block of N samples, bin t of
\* the shifted spectrum holds the value of the highest bin i with
\* 1 <= i < N/2 and floor(i * g) = t, and zero if there is none; no other
\* bin is a source and no bin from N on is written.
C23_FormantBinRemap ==
  Called("shifted_fft") =>
    LET N == off_in.N
        g == off_in.shift_factor
        from(t) == {i \in 1..N : 2 * i < N /\ (i * g) \div 100 = t}
    IN  /\ off_out.ok
        /\ Len(off_out.val) = N
        /\ \A t \in 0..(N - 1) :
             off_out.val[t + 1] =
               IF from(t) = {} THEN NoBin
               ELSE CHOOSE i \in from(t) : \A j \in from(t) : j <= i

\* A shift by 0.5 of 24 samples: bins 2 and 3 both go to bin 1, which ends
\* with bin 3's value; bin 1 goes to bin 0; the upper half stays zero.
C23_Witness ==
  /\ Called("shifted_fft")
  /\ off_in.N = 24
  /\ off_in.shift_factor = 50
  /\ off_out.val[2] = 3
  /\ off_out.val[1] = 1
  /\ off_out.val[24] = NoBin

C21_InvalidCutoffSkipsStage ==
  /\ off_op # "none"
  /\ \E freq \in StageCutoffs : ~ValidCutoff(freq, off_in.rate)
  => off_out = Ret("unmodified")

\* C26: when transform_audio raises for the block the worker holds, the
\* worker goes back to the head of its loop, the block is gone and nothing
\* is put in the output queue for it; the worker ends only when it finds
\* the running flag cleared; and blocks waiting in the input queue of a
\* live worker are dequeued in the end, unless the flag is cleared.
C26_TransformFailureKeepsWorker ==
  /\ [][processing_errors' # processing_errors =>
          /\ wpc' = "loop"
          /\ cur' = NoBlock
          /\ UNCHANGED <<input_queue, output_queue, played, is_running>>
          /\ \A k \in DOMAIN Pipeline' : Pipeline'[k] # cur.id]_vars
  /\ [][wpc # "dead" /\ wpc' = "dead" => wpc = "loop" /\ ~is_running]_vars
  /\ (input_queue # <<>> /\ wpc # "dead")
       ~> (input_queue = <<>> \/ ~is_running)

\* transform_audio raised for the first block, and the second block went
\* through the pipeline and was played, in one run of the worker.
C26_Witness ==
  /\ processing_errors = 1
  /\ played = <<2>>
  /\ is_running
  /\ wpc # "dead"
  /\ last_ret = "start_ok"


====
